---------------------------- MODULE Spec2Model ----------------------------
(***************************************************************************)
(* ClauseWise: jurisdiction-aware contract compliance analysis.            *)
(*                                                                         *)
(* The module models the deterministic rule engine of                      *)
(* backend/service/ContractAnalyzerService.py as state machines:           *)
(*   SpecScore     the Risk Scorer (calculate_risk_score)                  *)
(*   SpecNorm      the Text Normalizer (_preprocess_contract_text)         *)
(*   SpecExtract   the Section Extractor (_extract_contract_sections_only) *)
(*   SpecEngine    analyze_contract on the rule-engine path                *)
(*   SpecGranite   analyze_contract with a configured LLM client           *)
(*   SpecCalls     interleaved analyze_contract calls on one service       *)
(*   SpecBattery   the rule battery and the Gap Analyzer on a wider text   *)
(* and the code around it:                                                 *)
(*   SpecClient    the LLM client's extraction of JSON from generated text *)
(*   SpecBulk      bulk processing of several contracts                    *)
(*   SpecContext   the clause texts the rules attach to a match            *)
(*   SpecMetadata  the Contract Classifier (_analyze_contract_metadata)    *)
(*   SpecAuth      the cache of the IBM Cloud access token                 *)
(*   SpecUpload    the processing of one uploaded document                 *)
(*   SpecGeneral   the general contract terms on the rule-engine path      *)
(*   SpecCoerce    the issue fields of the LLM's JSON, from the generated  *)
(*                 text to the cleaned response                            *)
(*   SpecClean     the requirement and recommendation strings the response *)
(*                 cleaning keeps                                          *)
(***************************************************************************)
EXTENDS Integers, Sequences, FiniteSets, TLC

VARIABLES
    analysis,   \* Risk Scorer: the ContractAnalysisResponse handed to calculate_risk_score
    risk,       \* Risk Scorer: the ComplianceRiskScore it returned (None before any call)
    contract_text,  \* Text Normalizer: the raw text passed to _preprocess_contract_text
    clean_text,     \* Text Normalizer: the text it returned (None before the call)
    pattern_idx,    \* Section Extractor: the index of the section pattern being matched
    match_count,    \* Section Extractor: matches of that pattern handled so far
    sections,       \* Section Extractor: the sections list under construction
    extract_pc,     \* Section Extractor: "patterns", "paragraphs" or "returned"
    extracted,      \* Section Extractor: the list returned (None before the return)
    request,        \* Analyzer: the request handed to analyze_contract (None before the call)
    granite,        \* Analyzer: what the configured LLM client does (None without a client)
    response,       \* Analyzer: the response returned or the exception raised
    calls,          \* Concurrent analyses: the position and locals of every call
    seen_issues,    \* Concurrent analyses: the seen_issues set of every scope
    gap_request,    \* Gap Analyzer: the text and jurisdiction it is called with
    gap_issues,     \* Gap Analyzer: the validated compliance issues (None before the call)
    generated_text, \* LLM client: the text the model generated
    client_result,  \* LLM client: what analyze_contract of the client returned or raised
    bulk_request,   \* Bulk processing: the BulkAnalysisRequest
    bulk_tasks,     \* Bulk processing: the state of the analysis of every contract
    bulk_results,   \* Bulk processing: the results list under construction
    bulk_returned,  \* Bulk processing: the list returned or the exception raised
    context_call,   \* Clause texts: the rule, the text and the match it is called with
    context_text,   \* Clause texts: the clause_text of the flagged clause (None before)
    metadata_text,  \* Contract Classifier: the contract text
    metadata,       \* Contract Classifier: the metadata returned (None before the call)
    access_token,   \* Token cache: IBMCloudAuth._access_token (None when not cached)
    fetch_count,    \* Token cache: the tokens the IAM endpoint has issued so far
    auth_call,      \* Token cache: the last call on the cache and how it ended
    upload,         \* Upload: the file handed to process_single_document
    upload_result,  \* Upload: the steps it invoked and how it ended (None before)
    ai_issues,      \* Response cleaning: the compliance issues the LLM's JSON holds
    cleaned_issues  \* Response cleaning: the issues _clean_ai_response keeps (None before)

scoreVars == <<analysis, risk>>
normVars == <<contract_text, clean_text>>
extractVars == <<pattern_idx, match_count, sections, extract_pc, extracted>>
serviceVars == <<request, granite, response, calls, seen_issues>>
gapVars == <<gap_request, gap_issues>>
clientVars == <<generated_text, client_result>>
bulkVars == <<bulk_request, bulk_tasks, bulk_results, bulk_returned>>
contextVars == <<context_call, context_text>>
metadataVars == <<metadata_text, metadata>>
authVars == <<access_token, fetch_count, auth_call>>
uploadVars == <<upload, upload_result>>
cleanVars == <<ai_issues, cleaned_issues>>
vars == <<analysis, risk, contract_text, clean_text,
          pattern_idx, match_count, sections, extract_pc, extracted,
          request, granite, response, calls, seen_issues,
          gap_request, gap_issues, generated_text, client_result,
          bulk_request, bulk_tasks, bulk_results, bulk_returned,
          context_call, context_text, metadata_text, metadata,
          access_token, fetch_count, auth_call, upload, upload_result,
          ai_issues, cleaned_issues>>

\* An optional value: <<>> when absent, <<v>> when present.
None == <<>>
Some(v) == <<v>>

\* The analyzer before a call.
ServiceIdle ==
    /\ request = None
    /\ granite = None
    /\ response = None
    /\ calls = <<>>
    /\ seen_issues = <<>>

\* The Compliance Gap Analyzer before a call.
GapIdle ==
    /\ gap_request = None
    /\ gap_issues = None

\* The LLM client before a request.
ClientIdle ==
    /\ generated_text = None
    /\ client_result = None

\* The bulk processors before a request.
BulkIdle ==
    /\ bulk_request = None
    /\ bulk_tasks = <<>>
    /\ bulk_results = <<>>
    /\ bulk_returned = None

\* No clause text has been extracted.
ContextIdle ==
    /\ context_call = None
    /\ context_text = None

\* The Contract Classifier before a call.
MetadataIdle ==
    /\ metadata_text = None
    /\ metadata = None

\* IBMCloudAuth.__init__ (auth.py lines 19-33): no token is cached.
AuthIdle ==
    /\ access_token = None
    /\ fetch_count = 0
    /\ auth_call = None

\* No document has been uploaded.
UploadIdle ==
    /\ upload = None
    /\ upload_result = None

\* No response has been cleaned.
CleanIdle ==
    /\ ai_issues = None
    /\ cleaned_issues = None

\* The Section Extractor before a call.
ExtractIdle ==
    /\ pattern_idx = 1
    /\ match_count = 0
    /\ sections = <<>>
    /\ extract_pc = "patterns"
    /\ extracted = None

Max(a, b) == IF a >= b THEN a ELSE b
Min(a, b) == IF a <= b THEN a ELSE b

(***************************************************************************)
(* Data model                                                              *)
(***************************************************************************)
\* The closed set of law identifiers (valid_laws).
ValidLaws == {"EMPLOYMENT_ACT_MY", "PDPA_MY", "PDPA_SG", "GDPR_EU", "CCPA_US"}

\* FlaggedClause severities of the data model.
Severities == {"high", "medium", "low"}

(***************************************************************************)
(* Risk Scorer: calculate_risk_score                                       *)
(***************************************************************************)
\* Bounds of the scorer's inputs.
MaxScoreIssues == 1
MaxScoreClauses == 4
MaxMissing == 5

\* An issue as the scorer reads it: its law and len(missing_requirements).
ScoreIssues == [law : ValidLaws, missing_count : 0..MaxMissing]

\* A scorer whose "moderate" band starts above two missing requirements.
IssueDeductionStrict(law, missing_count) ==
    IF law = "CCPA_US"
    THEN IF missing_count >= 5 THEN 40
         ELSE IF missing_count >= 3 THEN 30
         ELSE IF missing_count >= 2 THEN 20
         ELSE 12
    ELSE IF missing_count >= 4 THEN 25
         ELSE IF missing_count > 2 THEN 15
         ELSE 8

\* Deduction of one compliance issue (lines 791-810).
IssueDeduction(law, missing_count) ==
    IF law = "CCPA_US"
    THEN IF missing_count >= 5 THEN 40
         ELSE IF missing_count >= 3 THEN 30
         ELSE IF missing_count >= 2 THEN 20
         ELSE 12
    ELSE IF missing_count >= 4 THEN 25
         ELSE IF missing_count >= 2 THEN 15
         ELSE 8

\* Deduction of one flagged clause (lines 816-827).
ClauseDeduction(severity) ==
    IF severity = "high" THEN 20
    ELSE IF severity = "medium" THEN 12
    ELSE 5

\* The loop over compliance_issues (lines 783-813), accumulating risk_deductions.
RECURSIVE IssueLoop(_, _)
IssueLoop(issues, risk_deductions) ==
    IF issues = <<>> THEN risk_deductions
    ELSE IssueLoop(Tail(issues),
                   risk_deductions
                     + IssueDeduction(Head(issues).law, Head(issues).missing_count))

\* The loop over flagged_clauses (lines 816-827).
RECURSIVE ClauseLoop(_, _)
ClauseLoop(clauses, risk_deductions) ==
    IF clauses = <<>> THEN risk_deductions
    ELSE ClauseLoop(Tail(clauses), risk_deductions + ClauseDeduction(Head(clauses)))

Abs(n) == IF n < 0 THEN 0 - n ELSE n

\* A scorer that clamps the distance from the base score rather than the difference.
FinalScoreAbs(base_risk_score, risk_deductions) ==
    Max(0, Min(100, Abs(base_risk_score - risk_deductions)))

\* final_score = max(0, min(100, base_risk_score - risk_deductions)) (line 830).
FinalScore(base_risk_score, risk_deductions) ==
    Max(0, Min(100, base_risk_score - risk_deductions))

\* risk level bands (lines 833-840).
RiskLevel(final_score) ==
    IF final_score >= 80 THEN "Low"
    ELSE IF final_score >= 60 THEN "Medium"
    ELSE IF final_score >= 40 THEN "High"
    ELSE "Critical"

\* calculate_risk_score: the overall score and the violation categories.
CalculateRiskScore(a) ==
    LET risk_deductions == ClauseLoop(a.flagged_clauses, IssueLoop(a.compliance_issues, 0))
    IN  [overall_score |-> FinalScore(100, risk_deductions),
         violation_categories |-> {a.compliance_issues[i].law : i \in DOMAIN a.compliance_issues},
         risk_level |-> RiskLevel(FinalScore(100, risk_deductions))]

\* Before any request: no result, no score.
ScoreIdle ==
    /\ analysis = [compliance_issues |-> <<>>, flagged_clauses |-> <<>>]
    /\ risk = None

InitScore ==
    /\ ScoreIdle
    /\ ServiceIdle
    /\ GapIdle
    /\ ClientIdle
    /\ BulkIdle /\ ContextIdle /\ MetadataIdle /\ AuthIdle /\ UploadIdle /\ CleanIdle
    /\ contract_text = <<>>
    /\ clean_text = None
    /\ ExtractIdle

\* calculate_risk_score on a result that has one more compliance issue.
ScoreWithIssue ==
    \E issue \in ScoreIssues :
        /\ Len(analysis.compliance_issues) < MaxScoreIssues
        /\ analysis' = [analysis EXCEPT !.compliance_issues = Append(@, issue)]
        /\ risk' = Some(CalculateRiskScore(analysis'))
        /\ UNCHANGED <<normVars, extractVars, serviceVars, gapVars, clientVars, bulkVars, contextVars, metadataVars, authVars, uploadVars, cleanVars>>

\* calculate_risk_score on a result that has one more flagged clause.
ScoreWithClause ==
    \E severity \in Severities :
        /\ Len(analysis.flagged_clauses) < MaxScoreClauses
        /\ analysis' = [analysis EXCEPT !.flagged_clauses = Append(@, severity)]
        /\ risk' = Some(CalculateRiskScore(analysis'))
        /\ UNCHANGED <<normVars, extractVars, serviceVars, gapVars, clientVars, bulkVars, contextVars, metadataVars, authVars, uploadVars, cleanVars>>

NextScore == ScoreWithIssue \/ ScoreWithClause

SpecScore == InitScore /\ [][NextScore]_vars

(***************************************************************************)
(* Section Extractor: _extract_contract_sections_only                      *)
(*                                                                         *)
(* A candidate (a pattern match or a paragraph) is described by what       *)
(* _is_genuine_contract_section reads of it: whether its title holds a     *)
(* non-contract keyword, and of its stripped content the length, the       *)
(* number of special characters, of upper-case and of alphabetic           *)
(* characters, of words, of sentence terminators and of contract           *)
(* indicators.                                                             *)
(***************************************************************************)
\* Thresholds of _is_genuine_contract_section.
MinContentChars == 50
MinWords == 15
MinSentences == 1
MinIndicators == 2
\* special_char_ratio > 0.4 and upper_ratio > 0.7, in tenths.
MaxSpecialTenths == 4
MaxUpperTenths == 7
\* len(section_patterns), the break threshold, the fallback threshold, the limit.
PatternCount == 4
EnoughSections == 3
FallbackBelow == 2
MaxReturned == 10

\* Bounds: matches handled per pattern, sections collected.
MaxMatches == 2
MaxSections == 11

\* A candidate at the accepting side of every threshold.
GoodCandidate ==
    [title_bad |-> FALSE, chars |-> 50, special |-> 20, upper |-> 7, alpha |-> 10,
     words |-> 15, sentences |-> 1, indicators |-> 2]

\* The candidates: the good one, a longer one, and each with one test failing.
Candidates ==
    {GoodCandidate,
     [GoodCandidate EXCEPT !.words = 16],
     [GoodCandidate EXCEPT !.title_bad = TRUE],
     [GoodCandidate EXCEPT !.chars = 49, !.special = 19],
     [GoodCandidate EXCEPT !.special = 21],
     [GoodCandidate EXCEPT !.upper = 8],
     [GoodCandidate EXCEPT !.words = 14],
     [GoodCandidate EXCEPT !.sentences = 0],
     [GoodCandidate EXCEPT !.indicators = 1]}

\* A filter that only looks at the length of the content.
IsLongEnough(c) == c.chars >= MinContentChars

\* _is_genuine_contract_section (lines 1173-1215).
IsGenuineContractSection(c) ==
    /\ ~c.title_bad
    /\ ~(c.chars < MinContentChars)
    /\ ~(10 * c.special > MaxSpecialTenths * Max(c.chars, 1))
    /\ ~(10 * c.upper > MaxUpperTenths * Max(c.alpha, 1))
    /\ ~(c.words < MinWords \/ c.sentences < MinSentences)
    /\ ~(c.indicators < MinIndicators)

\* sections.append({... "pattern_used": used}) (lines 1133-1139, 1228-1234).
Section(c, used) ==
    [pattern_used |-> used, title_bad |-> c.title_bad, chars |-> c.chars,
     special |-> c.special, upper |-> c.upper, alpha |-> c.alpha,
     words |-> c.words, sentences |-> c.sentences, indicators |-> c.indicators]

\* sorted(sections, key=word_count, reverse=True): a stable insertion.
RECURSIVE InsertByWordCount(_, _)
InsertByWordCount(sorted, sec) ==
    IF sorted = <<>> THEN <<sec>>
    ELSE IF Head(sorted).words >= sec.words
    THEN <<Head(sorted)>> \o InsertByWordCount(Tail(sorted), sec)
    ELSE <<sec>> \o sorted

RECURSIVE SortedByWordCount(_, _)
SortedByWordCount(secs, sorted) ==
    IF secs = <<>> THEN sorted
    ELSE SortedByWordCount(Tail(secs), InsertByWordCount(sorted, Head(secs)))

\* Line 1151: the sort and the [:10].
SortAndLimit(secs) ==
    SubSeq(SortedByWordCount(secs, <<>>), 1, Min(MaxReturned, Len(secs)))

InitExtract ==
    /\ ExtractIdle
    /\ ServiceIdle
    /\ GapIdle
    /\ ClientIdle
    /\ BulkIdle /\ ContextIdle /\ MetadataIdle /\ AuthIdle /\ UploadIdle /\ CleanIdle
    /\ ScoreIdle
    /\ contract_text = <<>>
    /\ clean_text = None

\* One iteration of the loop over the matches of a pattern (lines 1118-1139).
HandleMatch ==
    \E c \in Candidates :
        /\ extract_pc = "patterns"
        /\ match_count < MaxMatches
        /\ match_count' = match_count + 1
        /\ sections' = IF IsGenuineContractSection(c)
                       THEN Append(sections, Section(c, pattern_idx))
                       ELSE sections
        /\ UNCHANGED <<pattern_idx, extract_pc, extracted, scoreVars, normVars, serviceVars, gapVars, clientVars, bulkVars, contextVars, metadataVars, authVars, uploadVars, cleanVars>>

\* The end of a pattern's matches (lines 1142-1143) and, after the last
\* pattern or the break, the choice of the fallback (line 1146) or the return.
EndPattern ==
    /\ extract_pc = "patterns"
    /\ IF Len(sections) < EnoughSections /\ pattern_idx < PatternCount
       THEN /\ pattern_idx' = pattern_idx + 1
            /\ match_count' = 0
            /\ UNCHANGED <<extract_pc, extracted>>
       ELSE IF Len(sections) < FallbackBelow
       THEN /\ extract_pc' = "paragraphs"
            /\ UNCHANGED <<pattern_idx, match_count, extracted>>
       ELSE /\ extract_pc' = "returned"
            /\ extracted' = Some(SortAndLimit(sections))
            /\ UNCHANGED <<pattern_idx, match_count>>
    /\ UNCHANGED <<sections, scoreVars, normVars, serviceVars, gapVars, clientVars, bulkVars, contextVars, metadataVars, authVars, uploadVars, cleanVars>>

\* One iteration of the loop of _extract_meaningful_paragraphs (lines
\* 1224-1234); the title is "Paragraph n", which holds no non-contract keyword.
HandleParagraph ==
    \E c \in Candidates :
        /\ extract_pc = "paragraphs"
        /\ Len(sections) < MaxSections
        /\ sections' = IF IsGenuineContractSection([c EXCEPT !.title_bad = FALSE])
                       THEN Append(sections, Section([c EXCEPT !.title_bad = FALSE], 0))
                       ELSE sections
        /\ UNCHANGED <<pattern_idx, match_count, extract_pc, extracted, scoreVars, normVars, serviceVars, gapVars, clientVars, bulkVars, contextVars, metadataVars, authVars, uploadVars, cleanVars>>

\* The end of the paragraphs: sections.extend, the sort and the return.
EndParagraphs ==
    /\ extract_pc = "paragraphs"
    /\ extract_pc' = "returned"
    /\ extracted' = Some(SortAndLimit(sections))
    /\ UNCHANGED <<pattern_idx, match_count, sections, scoreVars, normVars, serviceVars, gapVars, clientVars, bulkVars, contextVars, metadataVars, authVars, uploadVars, cleanVars>>

NextExtract == HandleMatch \/ EndPattern \/ HandleParagraph \/ EndParagraphs

SpecExtract == InitExtract /\ [][NextExtract]_vars

(***************************************************************************)
(* C6: the Section Extractor                                               *)
(***************************************************************************)
\* C6: every section returned has at least 15 words, a sentence terminator,
\* two contract indicators, 50 characters of content, a special-character
\* ratio of at most 0.4, an upper-case ratio of at most 0.7 and no
\* non-contract keyword in its title.
C6_ReturnedSectionsGenuine ==
    extracted # None =>
        \A i \in DOMAIN extracted[1] :
            /\ extracted[1][i].words >= 15
            /\ extracted[1][i].sentences >= 1
            /\ extracted[1][i].indicators >= 2
            /\ extracted[1][i].chars >= 50
            /\ 10 * extracted[1][i].special <= 4 * extracted[1][i].chars
            /\ 10 * extracted[1][i].upper <= 7 * extracted[1][i].alpha
            /\ ~extracted[1][i].title_bad

\* C6 witness: a return that holds a section found by a pattern and one found
\* by the paragraph fallback.
C6_Witness ==
    /\ extracted # None
    /\ \E i \in DOMAIN extracted[1] : extracted[1][i].pattern_used > 0
    /\ \E i \in DOMAIN extracted[1] : extracted[1][i].pattern_used = 0

(***************************************************************************)
(* C4, C5: the Risk Scorer                                                 *)
(***************************************************************************)
\* The deduction D of the claim, counted per category rather than looped.
CountIssues(a, ccpa, lo, hi) ==
    Cardinality({i \in DOMAIN a.compliance_issues :
                    /\ (a.compliance_issues[i].law = "CCPA_US") = ccpa
                    /\ a.compliance_issues[i].missing_count \in lo..hi})
CountClauses(a, sev) == Cardinality({i \in DOMAIN a.flagged_clauses : a.flagged_clauses[i] = sev})

ClaimD(a) ==
      40 * CountIssues(a, TRUE, 5, MaxMissing + 1)
    + 30 * CountIssues(a, TRUE, 3, 4)
    + 20 * CountIssues(a, TRUE, 2, 2)
    + 12 * CountIssues(a, TRUE, 0, 1)
    + 25 * CountIssues(a, FALSE, 4, MaxMissing + 1)
    + 15 * CountIssues(a, FALSE, 2, 3)
    +  8 * CountIssues(a, FALSE, 0, 1)
    + 20 * CountClauses(a, "high")
    + 12 * CountClauses(a, "medium")
    +  5 * CountClauses(a, "low")

C5_MonotoneInHighClauses ==
    [][(/\ risk # None
        /\ analysis'.compliance_issues = analysis.compliance_issues
        /\ analysis'.flagged_clauses = Append(analysis.flagged_clauses, "high"))
       => risk'[1].overall_score <= risk[1].overall_score]_vars

\* C5 witness: a high clause was added to a result already clamped at 0.
C5_Witness ==
    /\ risk # None
    /\ risk[1].overall_score = 0
    /\ Len(analysis.flagged_clauses) >= 1
    /\ analysis.flagged_clauses[Len(analysis.flagged_clauses)] = "high"
    /\ ClaimD(analysis) - 20 >= 100

(***************************************************************************)
(* Text Normalizer: _preprocess_contract_text                              *)
(*                                                                         *)
(* A text is a sequence of one-character strings.  Each regular-expression *)
(* substitution of the code is a left-to-right scan (re.sub): at every     *)
(* position the pattern is tried; a match is replaced and the scan goes on *)
(* after it, otherwise the character is copied.                            *)
(***************************************************************************)
\* The keyword alternatives of the five metadata line patterns (lines 889-893);
\* 'page \d+' of the fifth pattern is PageKeyword.
MetadataPatterns ==
    <<{<<"c", "o", "n", "t", "r", "a", "c", "t", " ", "a", "n", "a", "l", "y", "s", "i", "s">>,
       <<"l", "e", "g", "a", "l", " ", "r", "e", "v", "i", "e", "w">>,
       <<"s", "u", "m", "m", "a", "r", "y">>,
       <<"o", "v", "e", "r", "v", "i", "e", "w">>,
       <<"a", "n", "a", "l", "y", "s", "i", "s">>,
       <<"r", "e", "v", "i", "e", "w">>},
      {<<"n", "o", "t", "e">>,
       <<"d", "i", "s", "c", "l", "a", "i", "m", "e", "r">>,
       <<"w", "a", "r", "n", "i", "n", "g">>,
       <<"i", "m", "p", "o", "r", "t", "a", "n", "t">>},
      {<<"c", "r", "e", "a", "t", "e", "d", " ", "b", "y">>,
       <<"g", "e", "n", "e", "r", "a", "t", "e", "d", " ", "b", "y">>,
       <<"a", "n", "a", "l", "y", "z", "e", "d", " ", "b", "y">>,
       <<"d", "o", "c", "u", "m", "e", "n", "t">>,
       <<"t", "i", "t", "l", "e">>},
      {<<"v", "e", "r", "s", "i", "o", "n">>,
       <<"d", "a", "t", "e">>,
       <<"s", "t", "a", "t", "u", "s">>,
       <<"a", "u", "t", "h", "o", "r">>},
      {<<"h", "e", "a", "d", "e", "r">>,
       <<"f", "o", "o", "t", "e", "r">>}>>

PageKeyword == <<"p", "a", "g", "e", " ">>

\* The keyword alternatives of the section-header pattern (line 894).
SectionHeaderKeywords ==
    {<<"s", "u", "m", "m", "a", "r", "y">>,
     <<"c", "o", "n", "c", "l", "u", "s", "i", "o", "n">>,
     <<"r", "e", "c", "o", "m", "m", "e", "n", "d", "a", "t", "i", "o", "n", "s">>,
     <<"r", "e", "c", "o", "m", "m", "e", "n", "d", "a", "t", "i", "o", "n">>}

\* The keyword alternatives of the page/section number filter (line 921).
PageNumberKeywords ==
    {<<"p", "a", "g", "e">>,
     <<"s", "e", "c", "t", "i", "o", "n">>,
     <<"a", "r", "t", "i", "c", "l", "e">>,
     <<"c", "h", "a", "p", "t", "e", "r">>}

UpperLetters == <<"A", "B", "C", "D", "E", "F", "G", "H", "I", "J", "K", "L", "M", "N", "O", "P", "Q", "R", "S", "T", "U", "V", "W", "X", "Y", "Z">>
LowerLetters == <<"a", "b", "c", "d", "e", "f", "g", "h", "i", "j", "k", "l", "m", "n", "o", "p", "q", "r", "s", "t", "u", "v", "w", "x", "y", "z">>
Digits == {"0", "1", "2", "3", "4", "5", "6", "7", "8", "9"}

IsUpper(c) == \E i \in DOMAIN UpperLetters : UpperLetters[i] = c
IsLower(c) == \E i \in DOMAIN LowerLetters : LowerLetters[i] = c
IsDigit(c) == c \in Digits
\* \s
IsSpace(c) == c \in {" ", "\t", "\n", "\r", "\f"}
\* \w
IsWordChar(c) == IsUpper(c) \/ IsLower(c) \/ IsDigit(c) \/ c = "_"
\* The character classes of the patterns, by name: \s, [ \t], \d, '.' (any
\* character but a newline), [^>], and the single characters.
InClass(c, class) ==
    CASE class = "space" -> IsSpace(c)
      [] class = "blank" -> c \in {" ", "\t"}
      [] class = "digit" -> IsDigit(c)
      [] class = "any" -> c # "\n"
      [] class = "not_gt" -> c # ">"
      [] OTHER -> c = class
\* (?i): the lower-case form of a character
Lower(c) ==
    IF IsUpper(c) THEN LowerLetters[CHOOSE i \in DOMAIN UpperLetters : UpperLetters[i] = c]
    ELSE c

SetMin(S) == CHOOSE x \in S : \A y \in S : x <= y
SetMax(S) == CHOOSE x \in S : \A y \in S : x >= y

\* ^ and $ under re.MULTILINE
AtLineStart(text, p) == p = 1 \/ text[p - 1] = "\n"
AtLineEnd(text, p) == p = Len(text) + 1 \/ text[p] = "\n"

\* The end of the longest run of characters of a class that starts at p
\* (a greedy X* ): the first position at or after p that is past the text or
\* holds a character outside the class.
RunEnd(text, p, class) ==
    SetMin({q \in p..(Len(text) + 1) : q = Len(text) + 1 \/ ~InClass(text[q], class)})

\* The literal d occurs at position p.
HasAt(text, p, d) ==
    /\ p + Len(d) - 1 <= Len(text)
    /\ \A i \in DOMAIN d : text[p + i - 1] = d[i]

HasAtIgnoreCase(text, p, d) ==
    /\ p + Len(d) - 1 <= Len(text)
    /\ \A i \in DOMAIN d : Lower(text[p + i - 1]) = d[i]

\* The end of ' \s*$ ' tried at a: the last line end inside the whitespace
\* run that starts at a, 0 if there is none.
TrailingSpaceEnd(text, a) ==
    LET ends == {q \in a..RunEnd(text, a, "space") : AtLineEnd(text, q)}
    IN  IF ends = {} THEN 0 ELSE SetMax(ends)

\* Step 1 (line 873): ^#{1,6}\s+.*$
HeaderMatchEnd(text, p) ==
    IF ~AtLineStart(text, p) THEN 0
    ELSE LET h == RunEnd(text, p, "#")
         IN  IF h - p >= 1 /\ h - p <= 6 /\ h <= Len(text) /\ IsSpace(text[h])
             THEN RunEnd(text, RunEnd(text, h, "space"), "any")
             ELSE 0

\* Step 2 (lines 876-878): d(.*?)d replaced by its group, for a delimiter d.
PairMatchEnd(text, p, d) ==
    IF ~HasAt(text, p, d) THEN 0
    ELSE LET closers == {q \in (p + Len(d))..RunEnd(text, p + Len(d), "any") :
                            HasAt(text, q, d)}
         IN  IF closers = {} THEN 0 ELSE SetMin(closers) + Len(d)

\* The grave accent, the code-span delimiter of line 878.
Grave == "grave"

\* Step 3 (line 881): ^\s*[-*+]\s+
BulletMatchEnd(text, p) ==
    IF ~AtLineStart(text, p) THEN 0
    ELSE LET s == RunEnd(text, p, "space")
         IN  IF /\ s + 1 <= Len(text)
                /\ text[s] \in {"-", "*", "+"}
                /\ IsSpace(text[s + 1])
             THEN RunEnd(text, s + 1, "space")
             ELSE 0

\* Step 3 (line 882): ^\s*\d+\.\s+(?=[A-Z])
NumberingMatchEnd(text, p) ==
    IF ~AtLineStart(text, p) THEN 0
    ELSE LET s == RunEnd(text, p, "space")
             d == RunEnd(text, s, "digit")
         IN  IF /\ d > s
                /\ d + 1 <= Len(text)
                /\ text[d] = "."
                /\ IsSpace(text[d + 1])
                /\ RunEnd(text, d + 1, "space") <= Len(text)
                /\ IsUpper(text[RunEnd(text, d + 1, "space")])
             THEN RunEnd(text, d + 1, "space")
             ELSE 0

\* Step 4 (line 885): <[^>]+>
TagMatchEnd(text, p) ==
    IF text[p] # "<" THEN 0
    ELSE LET g == RunEnd(text, p + 1, "not_gt")
         IN  IF g > p + 1 /\ g <= Len(text) THEN g + 1 ELSE 0

\* Step 5 (lines 889-893): (?i)^(keyword|...):.*$
MetadataMatchEnd(text, p, n) ==
    IF /\ AtLineStart(text, p)
       /\ \/ \E k \in MetadataPatterns[n] : HasAtIgnoreCase(text, p, Append(k, ":"))
          \/ /\ n = Len(MetadataPatterns)
             /\ HasAtIgnoreCase(text, p, PageKeyword)
             /\ LET d == RunEnd(text, p + Len(PageKeyword), "digit")
                IN  d > p + Len(PageKeyword) /\ d <= Len(text) /\ text[d] = ":"
    THEN RunEnd(text, p, "any")
    ELSE 0

\* Step 5 (line 894): (?i)^\s*(summary|conclusion|recommendations?):\s*$
SectionHeaderMatchEnd(text, p) ==
    IF ~AtLineStart(text, p) THEN 0
    ELSE LET s == RunEnd(text, p, "space")
             ks == {k \in SectionHeaderKeywords : HasAtIgnoreCase(text, s, Append(k, ":"))}
         IN  IF ks = {} THEN 0
             ELSE TrailingSpaceEnd(text, s + Len(CHOOSE k \in ks : TRUE) + 1)

\* Step 5 (lines 895-896): (?i)^\s*-{3,}\s*$ and (?i)^\s*={3,}\s*$
DividerMatchEnd(text, p, mark) ==
    IF ~AtLineStart(text, p) THEN 0
    ELSE LET s == RunEnd(text, p, "space")
             d == RunEnd(text, s, mark)
         IN  IF d - s >= 3 THEN TrailingSpaceEnd(text, d) ELSE 0

\* Step 6 (line 903): \n\s*\n\s*\n+ replaced by two newlines.  The match starts
\* at a newline and runs to the last newline of the whitespace run, which must
\* hold three newlines or more.
BlankRunMatchEnd(text, p) ==
    IF text[p] # "\n" THEN 0
    ELSE LET newlines == {q \in p..(RunEnd(text, p, "space") - 1) : text[q] = "\n"}
         IN  IF Cardinality(newlines) >= 3 THEN SetMax(newlines) + 1 ELSE 0

\* Step 6 (line 904): [ \t]+ replaced by one space.
BlankMatchEnd(text, p) == IF InClass(text[p], "blank") THEN RunEnd(text, p, "blank") ELSE 0

\* Step 6 (line 905): ^\s+
LeadingSpaceMatchEnd(text, p) ==
    IF AtLineStart(text, p) /\ IsSpace(text[p]) THEN RunEnd(text, p, "space") ELSE 0

\* str.split('\n')
RECURSIVE SplitLines(_)
SplitLines(text) ==
    LET le == RunEnd(text, 1, "any")
    IN  IF le > Len(text) THEN <<text>>
        ELSE <<SubSeq(text, 1, le - 1)>> \o SplitLines(SubSeq(text, le + 1, Len(text)))

\* str.strip()
Strip(s) ==
    LET kept == {i \in DOMAIN s : ~IsSpace(s[i])}
    IN  IF kept = {} THEN <<>> ELSE SubSeq(s, SetMin(kept), SetMax(kept))

\* '\n'.join(lines)
RECURSIVE JoinLines(_)
JoinLines(lines) ==
    IF lines = <<>> THEN <<>>
    ELSE IF Len(lines) = 1 THEN lines[1]
    ELSE lines[1] \o <<"\n">> \o JoinLines(Tail(lines))

\* str.isupper(): some cased character, and none of them lower case.
IsUpperStr(line) ==
    /\ \E i \in DOMAIN line : IsUpper(line[i])
    /\ \A i \in DOMAIN line : ~IsLower(line[i])

\* len(line.split())
WordCount(line) ==
    Cardinality({i \in DOMAIN line : ~IsSpace(line[i]) /\ (i = 1 \/ IsSpace(line[i - 1]))})

\* line.count(c)
Count(line, c) == Cardinality({i \in DOMAIN line : line[i] = c})

\* re.match(r'^(page|section|article|chapter)\s*\d+\s*$', line, re.IGNORECASE)
IsPageNumberLine(line) ==
    \E k \in PageNumberKeywords :
        /\ HasAtIgnoreCase(line, 1, k)
        /\ LET s == RunEnd(line, Len(k) + 1, "space")
               d == RunEnd(line, s, "digit")
           IN  d > s /\ TrailingSpaceEnd(line, d) = Len(line) + 1

\* A line shorter than this is dropped (line 918).
MinLineLength == 10
\* An all-capitals line with fewer words than this is dropped (line 919).
MinCapsWords == 5
\* A line is dropped when underscores or dashes exceed len // this (lines 922-923).
MarkShare == 3

\* The test of lines 918-923: the line is a formatting artifact.
IsArtifactLine(line) ==
    \/ Len(line) < MinLineLength
    \/ (IsUpperStr(line) /\ WordCount(line) < MinCapsWords)
    \/ \A i \in DOMAIN line : ~IsWordChar(line[i])
    \/ IsPageNumberLine(line)
    \/ Count(line, "_") > Len(line) \div MarkShare
    \/ Count(line, "-") > Len(line) \div MarkShare

\* Step 7 (lines 908-926): the loop that builds meaningful_lines.
RECURSIVE MeaningfulLines(_)
MeaningfulLines(lines) ==
    IF lines = <<>> THEN <<>>
    ELSE LET line == Strip(Head(lines))
         IN  IF line = <<>> THEN <<line>> \o MeaningfulLines(Tail(lines))
             ELSE IF IsArtifactLine(line) THEN MeaningfulLines(Tail(lines))
             ELSE <<line>> \o MeaningfulLines(Tail(lines))

\* A pattern that matches every run of newlines.
AnyNewlineRunMatchEnd(text, p) ==
    IF text[p] = "\n" THEN RunEnd(text, p, "\n") ELSE 0

\* Step 8 (line 932): \n{3,}
NewlineRunMatchEnd(text, p) ==
    IF text[p] = "\n" /\ RunEnd(text, p, "\n") - p >= 3
    THEN RunEnd(text, p, "\n")
    ELSE 0

\* The patterns of the substitutions, by name; arg is the delimiter of an
\* emphasis pattern and the index of a metadata pattern.
Pattern(kind, arg) == [kind |-> kind, arg |-> arg]

\* The position after the match of pattern pat that starts at p, 0 when the
\* pattern does not match there.
MatchEnd(text, p, pat) ==
    CASE pat.kind = "header" -> HeaderMatchEnd(text, p)
      [] pat.kind = "pair" -> PairMatchEnd(text, p, pat.arg)
      [] pat.kind = "bullet" -> BulletMatchEnd(text, p)
      [] pat.kind = "numbering" -> NumberingMatchEnd(text, p)
      [] pat.kind = "tag" -> TagMatchEnd(text, p)
      [] pat.kind = "metadata" -> MetadataMatchEnd(text, p, pat.arg)
      [] pat.kind = "section_header" -> SectionHeaderMatchEnd(text, p)
      [] pat.kind = "dashes" -> DividerMatchEnd(text, p, "-")
      [] pat.kind = "underline" -> DividerMatchEnd(text, p, "=")
      [] pat.kind = "blank_lines" -> BlankRunMatchEnd(text, p)
      [] pat.kind = "spaces" -> BlankMatchEnd(text, p)
      [] pat.kind = "leading_space" -> LeadingSpaceMatchEnd(text, p)
      [] pat.kind = "newlines" -> NewlineRunMatchEnd(text, p)

\* The replacement of the match of pat from p up to e: the group of an
\* emphasis pattern, two newlines, one space, or nothing.
Replacement(text, p, e, pat) ==
    CASE pat.kind = "pair" -> SubSeq(text, p + Len(pat.arg), e - Len(pat.arg) - 1)
      [] pat.kind \in {"blank_lines", "newlines"} -> <<"\n", "\n">>
      [] pat.kind = "spaces" -> <<" ">>
      [] OTHER -> <<>>

\* re.sub, scanning from position p with out already produced: a match is
\* replaced and the scan goes on after it, otherwise the character is copied.
RECURSIVE SubFrom(_, _, _, _)
SubFrom(text, p, out, pat) ==
    IF p > Len(text) THEN out
    ELSE IF MatchEnd(text, p, pat) > p
    THEN SubFrom(text, MatchEnd(text, p, pat),
                 out \o Replacement(text, p, MatchEnd(text, p, pat), pat), pat)
    ELSE SubFrom(text, p + 1, Append(out, text[p]), pat)

\* The substitutions of steps 1 to 6 (lines 873-905), in the order of the code.
CleaningPatterns ==
    <<Pattern("header", 0),
      Pattern("pair", <<"*", "*">>), Pattern("pair", <<"*">>), Pattern("pair", <<Grave>>),
      Pattern("bullet", 0), Pattern("numbering", 0),
      Pattern("tag", 0)>>
    \o [n \in DOMAIN MetadataPatterns |-> Pattern("metadata", n)]
    \o <<Pattern("section_header", 0), Pattern("dashes", 0), Pattern("underline", 0),
         Pattern("blank_lines", 0), Pattern("spaces", 0), Pattern("leading_space", 0)>>

\* The substitution of step 8 (line 932).
FinalPatterns == <<Pattern("newlines", 0)>>

\* text = re.sub(...) for each pattern of pats in turn.
RECURSIVE SubAll(_, _)
SubAll(text, pats) ==
    IF pats = <<>> THEN text
    ELSE SubAll(SubFrom(text, 1, <<>>, Head(pats)), Tail(pats))

\* _preprocess_contract_text: steps 1-6, the line filter of step 7, then the
\* strip and the newline limit of step 8.
PreprocessContractText(contract_text_in) ==
    SubAll(Strip(JoinLines(MeaningfulLines(SplitLines(
               SubAll(contract_text_in, CleaningPatterns))))),
           FinalPatterns)

\* The inputs: texts made of at most MaxTokens of these pieces.
MaxTokens == 3

BodyText == <<"P", "a", "r", "t", "y", " ", "s", "h", "a", "l", "l">>

Tokens ==
    {<<"#">>, <<"*">>, <<"*", "*">>, <<"-", " ">>, <<"+", " ">>, <<" ">>, <<"\n">>,
     <<"<">>, <<">">>, <<Grave>>, <<"1", ".", " ">>, <<"N", "o", "t", "e", ":">>, BodyText}

RECURSIVE Flatten(_)
Flatten(pieces) == IF pieces = <<>> THEN <<>> ELSE Head(pieces) \o Flatten(Tail(pieces))

TokenSeqs == UNION {[1..n -> Tokens] : n \in 0..MaxTokens}

NormIdle == contract_text = <<>> /\ clean_text = None

InitNorm ==
    /\ \E pieces \in TokenSeqs : contract_text = Flatten(pieces)
    /\ clean_text = None
    /\ ScoreIdle
    /\ ExtractIdle
    /\ ServiceIdle
    /\ GapIdle
    /\ ClientIdle
    /\ BulkIdle /\ ContextIdle /\ MetadataIdle /\ AuthIdle /\ UploadIdle /\ CleanIdle

\* One call of _preprocess_contract_text on the text received.
Preprocess ==
    /\ clean_text = None
    /\ clean_text' = Some(PreprocessContractText(contract_text))
    /\ UNCHANGED <<contract_text, scoreVars, extractVars, serviceVars, gapVars, clientVars, bulkVars, contextVars, metadataVars, authVars, uploadVars, cleanVars>>

NextNorm == Preprocess

SpecNorm == InitNorm /\ [][NextNorm]_vars

(***************************************************************************)
(* C7, C8: the Text Normalizer                                             *)
(***************************************************************************)
\* C7: the text returned by _preprocess_contract_text is never longer than the
\* text it was given.
C7_OutputNoLonger ==
    clean_text # None => Len(clean_text[1]) <= Len(contract_text)

\* C7 witness: a text that lost its markdown and kept its content.
C7_Witness ==
    /\ clean_text # None
    /\ clean_text[1] = BodyText
    /\ \E p \in DOMAIN contract_text : contract_text[p] \in {"#", "*", "<"}

\* A list bullet: '-', '*' or '+' at the start of a line, followed by whitespace.
HasBulletLine(text) ==
    \E p \in DOMAIN text :
        /\ AtLineStart(text, p)
        /\ text[p] \in {"-", "*", "+"}
        /\ p + 1 <= Len(text)
        /\ IsSpace(text[p + 1])

\* C8: the text returned by _preprocess_contract_text holds no '#', no '**' and
\* no list bullet at the start of a line.
C8_NoMarkdownRemains ==
    clean_text # None =>
        /\ \A p \in DOMAIN clean_text[1] : clean_text[1][p] # "#"
        /\ \A p \in DOMAIN clean_text[1] : ~HasAt(clean_text[1], p, <<"*", "*">>)
        /\ ~HasBulletLine(clean_text[1])


(***************************************************************************)
(* Contract analysis: analyze_contract and the rule engine behind it.      *)
(*                                                                         *)
(* A cleaned contract text is represented by the wordings that the         *)
(* engine's regular expressions and phrase tests read from it.  The texts  *)
(* of the model vary the wordings below; every other provision the engine  *)
(* looks for (CCPA fees, response times and service providers) is absent,  *)
(* and every extracted clause context is plain legal language unless the   *)
(* wording says otherwise.                                                 *)
(***************************************************************************)
Jurisdictions == {"MY", "SG", "EU", "US", "XX"}

\* request.jurisdiction is optional: "" stands for a missing one.
RequestJurisdictions == Jurisdictions \cup {""}

ContractTypes == {"Employment", "Rental"}

\* "misconduct": terminate ... without notice, with misconduct named in
\* the extracted context before it; "plain": the wording in a context that
\* names neither misconduct nor gross negligence; "formatting": such a
\* context holding a word like "entitled" or "document"; "repeated": the
\* plain wording together with "dismiss ... immediately".
TerminationWordings == {"none", "misconduct", "plain", "formatting", "repeated"}

\* "after_keyword": "notice of termination shall be 1 week";
\* "before_keyword": "a period of 7 days applies to any notice".
NoticeWordings == {"none", "after_keyword", "before_keyword"}

DataWordings == {"none", "personal information", "personal data"}

RightsWordings == {"none", "right to know", "opt-out", "privacy rights"}

MaxHours == 7

\* "short": the cleaned text has fewer than 100 characters and is its own
\* clause context; "full": a contract of several paragraphs.
TextSizes == {"short", "full"}

\* Full contracts in which remuneration, rest days, EPF and SOCSO are
\* provided for, salary and probation are lawful, and no sale of personal
\* information or sensitive information is mentioned.
Texts ==
    [size : {"full"},
     type : ContractTypes,
     termination : TerminationWordings,
     notice : NoticeWordings,
     hours : 0..MaxHours,        \* statements of more than 8 hours per day
     overtime : BOOLEAN,         \* overtime compensation is provided for
     leave : BOOLEAN,            \* annual leave of at least 8 days is granted
     wage : {TRUE},              \* salary, wage, compensation or remuneration is named
     low_salary : {FALSE},       \* a salary below RM 1500 is stated
     long_probation : {FALSE},   \* a probation period of more than 6 months is stated
     rest_days : {TRUE},         \* rest days or public holidays are provided for
     epf : {TRUE},               \* EPF contributions are provided for
     socso : {TRUE},             \* SOCSO contributions are provided for
     data : DataWordings,
     consent : BOOLEAN,          \* consent is explicit, written or informed
     rights : RightsWordings,
     sale : {FALSE},             \* "sell personal information" without an opt-out
     sensitive : {FALSE},        \* health data without sensitive-information wording
     liability_cap : {0},        \* the amount liability is limited to, 0 when not limited
     modification : {FALSE}]     \* one party may modify the terms without consent

\* The sale wording names personal information.
HasDataProcessing(t) == t.data # "none" \/ t.rights = "privacy rights" \/ t.sale

\* A law field is the sequence of its '|'-separated parts; <<>> is Python's None.
Law(name) == <<name>>

ApplicableLaws(j) ==
    CASE j = "MY" -> {"EMPLOYMENT_ACT_MY", "PDPA_MY"}
      [] j = "SG" -> {"PDPA_SG"}
      [] j = "EU" -> {"GDPR_EU"}
      [] j = "US" -> {"CCPA_US"}
      [] OTHER -> {}

IsApplicable(law, j) == \E name \in ApplicableLaws(j) : law = Law(name)

\* The text of a flagged clause, by what _is_substantive_clause reads from it.
ClauseText(id, chars, formatting, legal) ==
    [id |-> id, chars |-> chars, formatting |-> formatting, legal |-> legal]

ContextChars == 200

PlainContext(id) == ClauseText(id, ContextChars, FALSE, TRUE)

\* The context of a match in text t: the text itself when it is short.
ShortTextChars == 57

ContextLength(t) == IF t.size = "short" THEN ShortTextChars ELSE ContextChars

ContextIn(t, id) == ClauseText(id, ContextLength(t), FALSE, TRUE)

MinClauseChars == 20

IsSubstantiveClause(clause_text) ==
    /\ clause_text.chars >= MinClauseChars
    /\ ~clause_text.formatting
    /\ clause_text.legal

\* What the filters read from the issue sentence of each detection rule.
IssueFacts(rule) ==
    CASE rule = "termination" ->
            [severity |-> "high", generic |-> FALSE, significance |-> TRUE, concepts |-> TRUE,
             critical |-> 1, my_terms |-> 1, us_terms |-> 0]
      [] rule = "notice" ->
            [severity |-> "medium", generic |-> FALSE, significance |-> TRUE, concepts |-> FALSE,
             critical |-> 0, my_terms |-> 0, us_terms |-> 0]
      [] rule = "hours" ->
            [severity |-> "high", generic |-> FALSE, significance |-> TRUE, concepts |-> FALSE,
             critical |-> 0, my_terms |-> 1, us_terms |-> 0]
      [] rule = "overtime" ->
            [severity |-> "high", generic |-> FALSE, significance |-> TRUE, concepts |-> FALSE,
             critical |-> 1, my_terms |-> 1, us_terms |-> 0]
      [] rule = "leave" ->
            [severity |-> "medium", generic |-> FALSE, significance |-> TRUE, concepts |-> FALSE,
             critical |-> 1, my_terms |-> 0, us_terms |-> 0]
      [] rule = "consent" ->
            [severity |-> "high", generic |-> FALSE, significance |-> FALSE, concepts |-> FALSE,
             critical |-> 0, my_terms |-> 0, us_terms |-> 0]
      [] rule = "rights" ->
            [severity |-> "medium", generic |-> FALSE, significance |-> FALSE, concepts |-> FALSE,
             critical |-> 0, my_terms |-> 0, us_terms |-> 0]
      [] rule = "salary" ->
            [severity |-> "high", generic |-> FALSE, significance |-> FALSE, concepts |-> FALSE,
             critical |-> 0, my_terms |-> 1, us_terms |-> 0]
      [] rule = "liability" ->
            [severity |-> "medium", generic |-> FALSE, significance |-> TRUE, concepts |-> TRUE,
             critical |-> 0, my_terms |-> 0, us_terms |-> 0]
      [] rule \in {"probation", "rest_days", "epf", "socso", "consideration", "modification"} ->
            [severity |-> "medium", generic |-> FALSE, significance |-> TRUE, concepts |-> FALSE,
             critical |-> 0, my_terms |-> 0, us_terms |-> 0]
      [] rule = "data_sale" ->
            [severity |-> "high", generic |-> FALSE, significance |-> TRUE, concepts |-> FALSE,
             critical |-> 1, my_terms |-> 0, us_terms |-> 0]
      [] OTHER ->
            [severity |-> "medium", generic |-> FALSE, significance |-> FALSE, concepts |-> FALSE,
             critical |-> 0, my_terms |-> 0, us_terms |-> 0]

\* A flagged clause: the rule that raised it, the number its issue sentence
\* names (0 when it names none), its severity and its clause text.
Clause(rule, n, clause_text) ==
    [rule |-> rule, n |-> n, severity |-> IssueFacts(rule).severity,
     clause_text |-> clause_text, priority_score |-> 0]

\* A fixed label the engine puts in place of clause text.  An excerpt is named
\* by its wording and the number of the match, counted from 1; a label by its
\* words and 0.
Label(text, chars) == ClauseText(<<text, 0>>, chars, FALSE, TRUE)

IsExcerpt(clause_text) == clause_text.id[2] > 0

TerminationContext(t) ==
    ClauseText(<<"termination", 1>>, ContextLength(t), t.termination = "formatting", TRUE)

\* The outcome of a step that may raise: the clauses so far, or an exception.
AnalyzeTerminationProvisions(t) ==
    LET flagged ==
            CASE t.termination \in {"plain", "formatting"} ->
                    <<Clause("termination", 0, TerminationContext(t))>>
              [] t.termination = "repeated" ->
                    <<Clause("termination", 0, TerminationContext(t)),
                      Clause("termination", 0, ContextIn(t, <<"termination", 2>>))>>
              [] OTHER -> <<>>
    IN  CASE t.notice = "after_keyword" ->
                [raised |-> TRUE, flagged_clauses |-> flagged]
          [] t.notice = "before_keyword" ->
                [raised |-> FALSE,
                 flagged_clauses |->
                     Append(flagged, Clause("notice", 7, ContextIn(t, <<"notice", 1>>)))]
          [] OTHER -> [raised |-> FALSE, flagged_clauses |-> flagged]

MaxDailyHours == 8

AnalyzeWorkingHoursAndOvertime(t) ==
    [i \in 1..t.hours |->
        Clause("hours", MaxDailyHours + i, ContextIn(t, <<"hours", i>>))]
    \o (IF ~t.overtime /\ (t.wage \/ t.low_salary)
        THEN <<Clause("overtime", 0, ContextIn(t, <<"remuneration", 1>>))>>
        ELSE <<>>)

AnalyzeAnnualLeaveProvisions(t) ==
    IF t.leave THEN <<>>
    ELSE <<Clause("leave", 0, Label("Employment terms and benefits", 29))>>

\* The salary sentence matches the first and the third of the salary_patterns.
AnalyzeSalaryAndBenefits(t) ==
    IF t.low_salary
    THEN <<Clause("salary", 0, ContextIn(t, <<"salary", 1>>)),
           Clause("salary", 0, ContextIn(t, <<"salary", 2>>))>>
    ELSE <<>>

AnalyzeProbationPeriod(t) ==
    IF t.long_probation
    THEN <<Clause("probation", 0, ContextIn(t, <<"probation", 1>>))>>
    ELSE <<>>

AnalyzeRestDaysAndHolidays(t) ==
    IF t.rest_days THEN <<>>
    ELSE <<Clause("rest_days", 0, Label("Employment terms and working conditions", 39))>>

AnalyzeStatutoryContributions(t) ==
    (IF t.epf THEN <<>>
     ELSE <<Clause("epf", 0, Label("Employee benefits and contributions", 35))>>)
    \o (IF t.socso THEN <<>>
        ELSE <<Clause("socso", 0, Label("Employee benefits and contributions", 35))>>)

\* The sale sentence alone has 41 characters; the match runs on to the last
\* full stop of the text unless an opt-out wording follows.
AnalyzeCcpaClauseViolations(t) ==
    IF t.sale /\ t.rights # "opt-out"
    THEN <<Clause("data_sale", 0, ClauseText(<<"sale", 1>>, 41, FALSE, TRUE))>>
    ELSE <<>>

DataProtectionClauses(t, j) ==
    (IF j = "US" THEN AnalyzeCcpaClauseViolations(t) ELSE <<>>)
    \o (IF ~t.consent /\ t.data = "personal data"
        THEN <<Clause("consent", 0, ContextIn(t, <<"personal data", 1>>))>>
        ELSE <<>>)
    \o <<Clause("rights", 0, Label("Data processing provisions", 26))>>

\* The amount that group(1) of the liability pattern captures (line 1871):
\* the '.*' before the digits is greedy and leaves the group the last digit.
CapturedAmount(cap) == cap % 10

MinLiabilityCap == 1000

\* _analyze_general_contract_issues (lines 1867-1900): the liability cap,
\* the unilateral modification and the missing consideration.
AnalyzeGeneralContractIssues(t) ==
    (IF t.liability_cap > 0 /\ CapturedAmount(t.liability_cap) < MinLiabilityCap
     THEN <<Clause("liability", CapturedAmount(t.liability_cap), ContextIn(t, <<"liability", 1>>))>>
     ELSE <<>>)
    \o (IF t.modification
        THEN <<Clause("modification", 0, ContextIn(t, <<"modification", 1>>))>>
        ELSE <<>>)
    \o (IF t.wage THEN <<>>
        ELSE <<Clause("consideration", 0, Label("Contract terms and conditions", 29))>>)

PerformComprehensiveContractAnalysis(t, j) ==
    LET termination ==
            IF t.type = "Employment" /\ j = "MY"
            THEN AnalyzeTerminationProvisions(t)
            ELSE [raised |-> FALSE, flagged_clauses |-> <<>>]
        employment ==
            IF t.type = "Employment" /\ j = "MY"
            THEN AnalyzeWorkingHoursAndOvertime(t) \o AnalyzeAnnualLeaveProvisions(t)
                 \o AnalyzeSalaryAndBenefits(t) \o AnalyzeProbationPeriod(t)
                 \o AnalyzeRestDaysAndHolidays(t) \o AnalyzeStatutoryContributions(t)
            ELSE <<>>
        data == IF HasDataProcessing(t) THEN DataProtectionClauses(t, j) ELSE <<>>
    IN  IF termination.raised THEN termination
        ELSE [raised |-> FALSE,
              flagged_clauses |-> termination.flagged_clauses \o employment \o data
                                  \o AnalyzeGeneralContractIssues(t)]

\* The first 50 characters of the issue sentence reach past the number it names.
IssueKey(clause) == <<clause.rule, clause.n, clause.severity>>

MinLongClauseChars == 30

IsSubstantiveLegalIssue(clause) ==
    CASE clause.severity = "high" -> TRUE
      [] IssueFacts(clause.rule).generic -> FALSE
      [] IssueFacts(clause.rule).significance -> TRUE
      [] clause.clause_text.chars > MinLongClauseChars
         /\ IsSubstantiveClause(clause.clause_text) -> TRUE
      [] clause.severity = "medium" -> IssueFacts(clause.rule).concepts
      [] OTHER -> FALSE

KeepsIssue(clause, seen) ==
    IssueKey(clause) \notin seen /\ IsSubstantiveLegalIssue(clause)

RECURSIVE UniqueFlaggedClauses(_, _, _, _)
UniqueFlaggedClauses(raw, i, seen, kept) ==
    IF i > Len(raw) THEN kept
    ELSE IF KeepsIssue(raw[i], seen)
         THEN UniqueFlaggedClauses(raw, i + 1, seen \cup {IssueKey(raw[i])},
                                   Append(kept, raw[i]))
         ELSE UniqueFlaggedClauses(raw, i + 1, seen, kept)

HighWeight == 10
MediumWeight == 5
LowWeight == 1
IndicatorWeight == 3
TermWeight == 5
PriorityThreshold == 8
MaxCritical == 10

PriorityScore(clause, j) ==
    (CASE clause.severity = "high" -> HighWeight
       [] clause.severity = "medium" -> MediumWeight
       [] OTHER -> LowWeight)
    + IndicatorWeight * IssueFacts(clause.rule).critical
    + (CASE j = "US" -> TermWeight * IssueFacts(clause.rule).us_terms
         [] j = "MY" -> TermWeight * IssueFacts(clause.rule).my_terms
         [] OTHER -> 0)

\* list.sort(reverse=True) is stable: a clause goes after those of equal score.
RECURSIVE InsertByPriority(_, _)
InsertByPriority(sorted, clause) ==
    IF sorted = <<>> THEN <<clause>>
    ELSE IF Head(sorted).priority_score >= clause.priority_score
         THEN <<Head(sorted)>> \o InsertByPriority(Tail(sorted), clause)
         ELSE <<clause>> \o sorted

RECURSIVE CriticalClauses(_, _, _, _)
CriticalClauses(flagged, i, j, critical) ==
    IF i > Len(flagged) THEN critical
    ELSE IF PriorityScore(flagged[i], j) >= PriorityThreshold
         THEN CriticalClauses(flagged, i + 1, j,
                 InsertByPriority(critical,
                     [flagged[i] EXCEPT !.priority_score = PriorityScore(flagged[i], j)]))
         ELSE CriticalClauses(flagged, i + 1, j, critical)

ApplyCriticalLegalAnalysis(flagged, j) ==
    LET critical_clauses == CriticalClauses(flagged, 1, j, <<>>)
    IN  SubSeq(critical_clauses, 1, Min(MaxCritical, Len(critical_clauses)))

\* A mapping that files the data protection findings for MY under the
\* Employment Act.
MisfiledDataProtectionLaw(j) ==
    CASE j = "MY" -> "EMPLOYMENT_ACT_MY"
      [] j = "SG" -> "PDPA_SG"
      [] j = "EU" -> "GDPR_EU"
      [] j = "US" -> "CCPA_US"
      [] OTHER -> ""

DataProtectionLaw(j) ==
    CASE j = "MY" -> "PDPA_MY"
      [] j = "SG" -> "PDPA_SG"
      [] j = "EU" -> "GDPR_EU"
      [] j = "US" -> "CCPA_US"
      [] OTHER -> ""

\* The two lists of a compliance issue under construction.  A requirement
\* and the recommendation appended with it carry the name of their check.
Findings(requirements, recommendations) ==
    [requirements |-> requirements, recommendations |-> recommendations]

Paired(checks) == Findings(checks, checks)

ComplianceIssue(law, findings) ==
    [law |-> law, missing_requirements |-> findings.requirements,
     recommendations |-> findings.recommendations]

\* The nine checks of the employment block, in the order they are made.
EmploymentChecks(t) ==
    (IF t.notice = "after_keyword" THEN <<>> ELSE <<"Section 12 notice">>)
    \o (IF t.hours > 0 THEN <<"Section 60A hours">> ELSE <<>>)
    \o (IF t.overtime THEN <<>> ELSE <<"Section 60A overtime">>)
    \o (IF t.leave THEN <<>> ELSE <<"Section 60E annual leave">>)
    \o (IF t.rest_days THEN <<>> ELSE <<"Sections 60C, 60D rest days">>)
    \o (IF t.long_probation THEN <<"Section 11 probation">> ELSE <<>>)
    \o (IF t.low_salary THEN <<"minimum wage">> ELSE <<>>)
    \o (IF t.epf THEN <<>> ELSE <<"EPF contributions">>)
    \o (IF t.socso THEN <<>> ELSE <<"SOCSO contributions">>)

EmploymentRequirements(t) == Paired(EmploymentChecks(t))

RightsGateMatches(t) == t.rights \in {"opt-out", "privacy rights"}

\* Checks 1, 3 and 7 fail for every text; check 8 extends the requirements
\* by its violations and appends one recommendation for them all.
AdditionalViolations(t) ==
    (IF t.sale /\ t.rights # "opt-out" THEN <<"data sale opt-out notice">> ELSE <<>>)
    \o (IF t.sensitive THEN <<"sensitive information disclosures">> ELSE <<>>)

DetectCcpaViolations(t) ==
    LET checks == <<"CCPA consumer rights", "CCPA contact methods",
                    "CCPA notice at collection">>
    IN  IF AdditionalViolations(t) = <<>> THEN Paired(checks)
        ELSE Findings(checks \o AdditionalViolations(t),
                      Append(checks, "data sales and sensitive information"))

AppendPair(findings, check) ==
    Findings(Append(findings.requirements, check),
             Append(findings.recommendations, check))

\* For "US" the lists returned by _detect_ccpa_violations replace the lists
\* built so far.
DataProtectionRequirements(t, j) ==
    LET consent == IF t.consent THEN Paired(<<>>) ELSE Paired(<<"explicit consent">>)
    IN  CASE j \in {"MY", "SG"} -> AppendPair(consent, "data subject rights")
          [] j = "EU" -> AppendPair(consent, "GDPR data subject rights")
          [] j = "US" /\ ~RightsGateMatches(t) ->
                AppendPair(DetectCcpaViolations(t), "consumer privacy rights disclosure")
          [] OTHER -> consent

GenerateSmartComplianceIssues(t, j) ==
    (IF t.type = "Employment" /\ j = "MY" /\ EmploymentChecks(t) # <<>>
     THEN <<ComplianceIssue(Law("EMPLOYMENT_ACT_MY"), EmploymentRequirements(t))>>
     ELSE <<>>)
    \o (IF HasDataProcessing(t) /\ DataProtectionLaw(j) # ""
           /\ DataProtectionRequirements(t, j).requirements # <<>>
        THEN <<ComplianceIssue(Law(DataProtectionLaw(j)), DataProtectionRequirements(t, j))>>
        ELSE <<>>)

GenericPlaceholders ==
    {"Specific statutory requirements missing",
     "Specific actionable legal compliance steps",
     "General compliance concern identified",
     "Review with legal counsel"}

IsGenericPlaceholder(text) == text \in GenericPlaceholders

RECURSIVE WithoutPlaceholders(_)
WithoutPlaceholders(items) ==
    IF items = <<>> THEN <<>>
    ELSE IF IsGenericPlaceholder(Head(items))
         THEN WithoutPlaceholders(Tail(items))
         ELSE <<Head(items)>> \o WithoutPlaceholders(Tail(items))

RECURSIVE ValidateComplianceIssues(_, _)
ValidateComplianceIssues(issues, j) ==
    IF issues = <<>> THEN <<>>
    ELSE IF /\ IsApplicable(Head(issues).law, j)
            /\ WithoutPlaceholders(Head(issues).missing_requirements) # <<>>
            /\ WithoutPlaceholders(Head(issues).recommendations) # <<>>
         THEN <<[Head(issues) EXCEPT
                   !.missing_requirements = WithoutPlaceholders(@),
                   !.recommendations = WithoutPlaceholders(@)]>>
              \o ValidateComplianceIssues(Tail(issues), j)
         ELSE ValidateComplianceIssues(Tail(issues), j)

Summary(kind, type, j, count, areas, advice, size) ==
    [kind |-> kind, type |-> type, jurisdiction |-> j, count |-> count,
     areas |-> areas, advice |-> advice, size |-> size]

CountSeverity(flagged, severity) ==
    Cardinality({i \in DOMAIN flagged : flagged[i].severity = severity})

HasLaw(issues, names) ==
    \E i \in DOMAIN issues : \E name \in names : issues[i].law = Law(name)

ConcernAreas(issues) ==
    (IF HasLaw(issues, {"EMPLOYMENT_ACT_MY"}) THEN <<"employment law compliance">> ELSE <<>>)
    \o (IF HasLaw(issues, {"PDPA_MY", "PDPA_SG"})
        THEN <<"data protection requirements">> ELSE <<>>)
    \o (IF HasLaw(issues, {"GDPR_EU"}) THEN <<"GDPR compliance">> ELSE <<>>)

\* Every contextual summary is a sentence of more than 100 characters.
GenerateContextualSummary(flagged, issues, t, j) ==
    LET high == CountSeverity(flagged, "high")
        medium == CountSeverity(flagged, "medium")
        advice == IF high > 0 \/ Len(issues) > 2 THEN "legal review" ELSE "consider"
    IN  CASE Len(flagged) + Len(issues) = 0 ->
                Summary("no significant issues", t.type, j, 0, <<>>, "", "long")
          [] high > 0 ->
                Summary("high-priority issues", t.type, j, high,
                        ConcernAreas(issues), advice, "long")
          [] medium > 0 ->
                Summary("moderate concerns", t.type, j, medium,
                        ConcernAreas(issues), advice, "long")
          [] OTHER ->
                Summary("minor gaps", t.type, j, 0, ConcernAreas(issues), advice, "long")

\* A JSON document handed to the response step, or the exception raised
\* instead of it.  valid: the text parses as JSON; wellformed: its entries
\* are objects with string fields.
Document(summary, flagged, issues) ==
    [raised |-> FALSE, valid |-> TRUE, wellformed |-> TRUE, summary |-> summary,
     flagged_clauses |-> flagged, compliance_issues |-> issues]

NoSummary == Summary("", "", "", 0, <<>>, "", "short")

RaisedException == [Document(NoSummary, <<>>, <<>>) EXCEPT !.raised = TRUE]

\* _get_intelligent_mock_analysis after its deduplication loop.
CompleteAnalysis(unique, t, j) ==
    LET compliance_issues ==
            ValidateComplianceIssues(GenerateSmartComplianceIssues(t, j), j)
        flagged_clauses == ApplyCriticalLegalAnalysis(unique, j)
    IN  Document(GenerateContextualSummary(flagged_clauses, compliance_issues, t, j),
                 flagged_clauses, compliance_issues)

GetIntelligentMockAnalysis(t, j) ==
    LET contract_analysis == PerformComprehensiveContractAnalysis(t, j)
    IN  IF contract_analysis.raised THEN RaisedException
        ELSE CompleteAnalysis(
                UniqueFlaggedClauses(contract_analysis.flagged_clauses, 1, {}, <<>>),
                t, j)

IsGraniteResponseMinimal(doc) ==
    \/ ~doc.valid
    \/ /\ Len(doc.flagged_clauses) + Len(doc.compliance_issues) < 2
       /\ doc.summary.size # "long"

MergeBelowFlagged == 3
MergeStopFlagged == 5
MergeBelowCompliance == 2
MergedFlaggedLimit == 10
MergedComplianceLimit == 5

\* clause_text in existing["clause_text"]: the empty text is part of every text.
RECURSIVE MergeFlagged(_, _)
MergeFlagged(merged, ours) ==
    IF ours = <<>> THEN merged
    ELSE IF \E i \in DOMAIN merged :
                \/ Head(ours).clause_text.id = merged[i].clause_text.id
                \/ Head(ours).clause_text.chars = 0
         THEN MergeFlagged(merged, Tail(ours))
         ELSE IF Len(merged) + 1 >= MergeStopFlagged
              THEN Append(merged, Head(ours))
              ELSE MergeFlagged(Append(merged, Head(ours)), Tail(ours))

RECURSIVE MergeCompliance(_, _)
MergeCompliance(merged, ours) ==
    IF ours = <<>> THEN merged
    ELSE IF \E i \in DOMAIN merged : merged[i].law = Head(ours).law
         THEN MergeCompliance(merged, Tail(ours))
         ELSE MergeCompliance(Append(merged, Head(ours)), Tail(ours))

FirstN(s, n) == SubSeq(s, 1, Min(n, Len(s)))

CreateEnhancedSummary(granite_summary, intelligent_summary) ==
    IF granite_summary.size # "short" THEN granite_summary ELSE intelligent_summary

\* intelligent: what self._get_intelligent_mock_analysis(contract_text, metadata)
\* returns or raises for the request at hand; the steps below name it where
\* the code makes that call.
EnhanceGraniteResponse(doc, intelligent) ==
    LET granite_json == IF doc.valid THEN doc ELSE Document(NoSummary, <<>>, <<>>)
    IN  IF intelligent.raised THEN RaisedException
        ELSE Document(
                CreateEnhancedSummary(granite_json.summary, intelligent.summary),
                FirstN(IF Len(granite_json.flagged_clauses) < MergeBelowFlagged
                       THEN MergeFlagged(granite_json.flagged_clauses,
                                         intelligent.flagged_clauses)
                       ELSE granite_json.flagged_clauses, MergedFlaggedLimit),
                FirstN(IF Len(granite_json.compliance_issues) < MergeBelowCompliance
                       THEN MergeCompliance(granite_json.compliance_issues,
                                            intelligent.compliance_issues)
                       ELSE granite_json.compliance_issues, MergedComplianceLimit))

\* client: what WatsonXClient.analyze_contract does for this request.
GetGraniteAnalysisWithContext(client, intelligent) ==
    LET enhanced_response == EnhanceGraniteResponse(client.doc, intelligent)
    IN  CASE client.kind = "api_error" -> intelligent
          [] IsGraniteResponseMinimal(client.doc) ->
                IF enhanced_response.raised THEN intelligent ELSE enhanced_response
          [] OTHER -> client.doc

JurisdictionPriority(j) ==
    CASE j = "MY" -> <<"PDPA_MY", "EMPLOYMENT_ACT_MY">>
      [] j = "SG" -> <<"PDPA_SG">>
      [] j = "EU" -> <<"GDPR_EU">>
      [] j = "US" -> <<"CCPA_US">>
      [] OTHER -> <<>>

GetDefaultLawForJurisdiction(j) ==
    IF j \in {"MY", "SG", "EU", "US"} THEN Law(DataProtectionLaw(j)) ELSE <<>>

\* The first element of candidates that is in allowed, as a law; <<>> if none.
RECURSIVE FirstLawIn(_, _)
FirstLawIn(candidates, allowed) ==
    IF candidates = <<>> THEN <<>>
    ELSE IF Head(candidates) \in allowed THEN Law(Head(candidates))
         ELSE FirstLawIn(Tail(candidates), allowed)

SelectAppropriateLaw(law_options, j) ==
    LET priority_law ==
            FirstLawIn(JurisdictionPriority(j), {law_options[i] : i \in DOMAIN law_options})
        valid_law == FirstLawIn(law_options, ValidLaws)
    IN  CASE priority_law # <<>> -> priority_law
          [] valid_law # <<>> -> valid_law
          [] OTHER -> GetDefaultLawForJurisdiction(j)

FixedLaw(law_field, j) ==
    CASE Len(law_field) > 1 -> SelectAppropriateLaw(law_field, j)
      [] law_field \notin {Law(name) : name \in ValidLaws} -> GetDefaultLawForJurisdiction(j)
      [] OTHER -> law_field

FinalLawPresent(final_law, j) == final_law # <<>>

FinalLawApplicable(final_law, j) == IsApplicable(final_law, j)

\* _generate_specific_requirements and _generate_specific_recommendations:
\* the entries of the law's list, or the one default sentence.
GenerateSpecific(law) == <<"specific to the law">>

CleanedItems(items, law) ==
    IF WithoutPlaceholders(items) = <<>> THEN GenerateSpecific(law)
    ELSE WithoutPlaceholders(items)

RECURSIVE CleanedCompliance(_, _)
CleanedCompliance(issues, j) ==
    LET issue == Head(issues)
        final_law == FixedLaw(issue.law, j)
    IN  IF issues = <<>> THEN <<>>
        ELSE IF \/ issue.law = Law("EMPLOYMENT_ACT_MY") /\ j # "MY"
                \/ ~FinalLawApplicable(final_law, j)
             THEN CleanedCompliance(Tail(issues), j)
             ELSE <<[law |-> final_law,
                     missing_requirements |->
                         CleanedItems(issue.missing_requirements, final_law),
                     recommendations |->
                         CleanedItems(issue.recommendations, final_law)]>>
                  \o CleanedCompliance(Tail(issues), j)

RECURSIVE CleanedFlagged(_)
CleanedFlagged(flagged) ==
    IF flagged = <<>> THEN <<>>
    ELSE IF IsSubstantiveClause(Head(flagged).clause_text)
         THEN <<Head(flagged)>> \o CleanedFlagged(Tail(flagged))
         ELSE CleanedFlagged(Tail(flagged))

CleanAiResponse(ai_json, j) ==
    [ai_json EXCEPT !.flagged_clauses = CleanedFlagged(@),
                    !.compliance_issues = CleanedCompliance(@, j)]

GenerateComprehensiveAnalysis(t, j) ==
    Document(Summary("comprehensive review", t.type, j, 0, <<>>, "", "medium"), <<>>, <<>>)

\* What analyze_contract hands back: a ContractAnalysisResponse or an exception.
Response(doc, j) ==
    [raised |-> doc.raised, summary |-> doc.summary,
     flagged_clauses |-> doc.flagged_clauses,
     compliance_issues |-> doc.compliance_issues, jurisdiction |-> j]

SafeDefault(kind, j) ==
    Response(Document(Summary(kind, "", "", 0, <<>>, "", "medium"), <<>>, <<>>), j)

\* Step 5 of analyze_contract.
ParseAndValidate(doc, t, j) ==
    LET ai_json == CleanAiResponse(doc, j)
    IN  CASE ~doc.valid -> SafeDefault("could not be parsed", j)
          [] ~doc.wellformed -> SafeDefault("failed to process", j)
          [] ai_json.compliance_issues = <<>> /\ ai_json.flagged_clauses = <<>> ->
                Response(GenerateComprehensiveAnalysis(t, j), j)
          [] OTHER -> Response(ai_json, j)

\* A step 4 without the except branches and without the second look at the
\* response: what the client raises is raised.
SurfacingAiResponse(client, intelligent) ==
    IF client.kind = "api_error" THEN RaisedException
    ELSE GetGraniteAnalysisWithContext(client, intelligent)

\* Step 4 of analyze_contract with a configured client.
RealAiResponse(client, intelligent) ==
    LET ai_response_text == GetGraniteAnalysisWithContext(client, intelligent)
    IN  IF ai_response_text.raised \/ IsGraniteResponseMinimal(ai_response_text)
        THEN intelligent
        ELSE ai_response_text

EffectiveJurisdiction(requested) == IF requested = "" THEN "MY" ELSE requested

\* Steps 4 and 5 of analyze_contract for jurisdiction j.  watsonx: None when
\* no client is configured, else what the client does.
AnalyzeForJurisdiction(t, j, watsonx, intelligent) ==
    LET ai_response == IF watsonx = None THEN intelligent
                       ELSE RealAiResponse(watsonx[1], intelligent)
    IN  IF ai_response.raised THEN Response(RaisedException, j)
        ELSE ParseAndValidate(ai_response, t, j)

AnalyzeContract(t, requested, watsonx) ==
    AnalyzeForJurisdiction(t, EffectiveJurisdiction(requested), watsonx,
        GetIntelligentMockAnalysis(t, EffectiveJurisdiction(requested)))

(***************************************************************************)
(* SpecEngine: one analyze_contract call on a service without an LLM       *)
(* client (the rule-engine path).                                          *)
(***************************************************************************)
InitEngine ==
    /\ ServiceIdle
    /\ GapIdle
    /\ ClientIdle
    /\ BulkIdle /\ ContextIdle /\ MetadataIdle /\ AuthIdle /\ UploadIdle /\ CleanIdle
    /\ ScoreIdle
    /\ NormIdle
    /\ ExtractIdle

AnalyzeWithRuleEngine ==
    /\ request = None
    /\ \E t \in Texts, requested \in RequestJurisdictions :
        /\ request' = Some([text |-> t, jurisdiction |-> requested])
        /\ response' = Some(AnalyzeContract(t, requested, None))
    /\ UNCHANGED <<granite, calls, seen_issues, scoreVars, normVars, extractVars, gapVars, clientVars, bulkVars, contextVars, metadataVars, authVars, uploadVars, cleanVars>>

NextEngine == AnalyzeWithRuleEngine

SpecEngine == InitEngine /\ [][NextEngine]_vars

\* C2: analyze_contract never raises: every call returns a response.
C2_NeverRaises == response # None => ~response[1].raised

CitesSection12(clause) == clause.rule = "termination"

\* C9: for MY and an Employment contract that states termination without
\* notice outside a misconduct context, the returned result holds a high
\* severity flagged clause citing Employment Act 1955 Section 12.
C9_Section12ClauseReturned ==
    /\ response # None
    /\ ~response[1].raised
    /\ response[1].jurisdiction = "MY"
    /\ request[1].text.type = "Employment"
    /\ request[1].text.termination \in {"plain", "formatting", "repeated"}
    => \E i \in DOMAIN response[1].flagged_clauses :
            /\ CitesSection12(response[1].flagged_clauses[i])
            /\ response[1].flagged_clauses[i].severity = "high"

\* C10: for US, a text with 'personal information' and neither 'right to
\* know' nor opt-out language yields a CCPA_US compliance issue with a
\* non-empty missing_requirements list in the returned result.
C10_CcpaIssueReturned ==
    /\ response # None
    /\ response[1].jurisdiction = "US"
    /\ request[1].text.data = "personal information"
    /\ request[1].text.rights \notin {"right to know", "opt-out"}
    => /\ ~response[1].raised
       /\ \E i \in DOMAIN response[1].compliance_issues :
            /\ response[1].compliance_issues[i].law = Law("CCPA_US")
            /\ response[1].compliance_issues[i].missing_requirements # <<>>

SupportedJurisdictions == {"MY", "SG", "EU", "US"}

\* C14: the jurisdiction used and reported is the caller's when it is one of
\* MY, SG, EU, US, and MY when the caller's is absent or is another code.
C14_JurisdictionKeptOrDefaulted ==
    response # None /\ ~response[1].raised =>
        response[1].jurisdiction =
            IF request[1].jurisdiction \in SupportedJurisdictions
            THEN request[1].jurisdiction
            ELSE "MY"

(***************************************************************************)
(* SpecGranite: one analyze_contract call on a service with a configured   *)
(* LLM client.  The client raises, or returns text that is not JSON, JSON  *)
(* whose entries are not objects, or a JSON analysis.                      *)
(***************************************************************************)
MaxGraniteIssues == 2
MaxGraniteFlags == 3

\* "" is a missing or empty law field; two parts are a '|'-joined field.
GraniteLawFields ==
    {<<"">>, <<"HIPAA">>, <<"EMPLOYMENT_ACT_MY">>, <<"PDPA_MY">>, <<"PDPA_SG">>,
     <<"GDPR_EU">>, <<"CCPA_US">>, <<"EMPLOYMENT_ACT_MY", "PDPA_MY">>,
     <<"PDPA_SG", "GDPR_EU">>, <<"HIPAA", "SOX">>}

GraniteIssue(law_field) ==
    [law |-> law_field,
     missing_requirements |-> <<"General compliance concern identified">>,
     recommendations |-> <<"Review with legal counsel">>]

GraniteClause(i, substantive) ==
    Clause("granite", i,
           IF substantive THEN PlainContext(<<"granite", i>>)
           ELSE ClauseText(<<"granite", i>>, 10, TRUE, FALSE))

GraniteDocuments ==
    {Document(Summary("granite", "", "", 0, <<>>, "", size),
              [i \in 1..flags |-> GraniteClause(i, substantive)], issues) :
        size \in {"short", "medium", "long"},
        flags \in 0..MaxGraniteFlags,
        substantive \in BOOLEAN,
        issues \in UNION {[1..n -> {GraniteIssue(f) : f \in GraniteLawFields}] :
                            n \in 0..MaxGraniteIssues}}

NotJson == [Document(NoSummary, <<>>, <<>>) EXCEPT !.valid = FALSE]

NotObjects ==
    [Document(NoSummary, <<>>, <<GraniteIssue(<<"">>), GraniteIssue(<<"">>)>>)
        EXCEPT !.wellformed = FALSE]

GraniteOutcomes ==
    {[kind |-> "api_error", doc |-> NotJson]}
    \cup {[kind |-> "response", doc |-> d] : d \in GraniteDocuments \cup {NotJson, NotObjects}}

\* An employment contract, one whose notice wording makes the engine
\* raise, and a rental contract, each with a data-protection gap, and a
\* rental contract without any finding.
\* A full contract whose working hours, overtime, leave and other
\* employment provisions are lawful, without consent and rights wordings.
LawfulText(type, termination, notice, data) ==
    [size |-> "full", type |-> type, termination |-> termination, notice |-> notice,
     hours |-> 0, overtime |-> TRUE, leave |-> TRUE, wage |-> TRUE, low_salary |-> FALSE,
     long_probation |-> FALSE, rest_days |-> TRUE, epf |-> TRUE, socso |-> TRUE,
     data |-> data, consent |-> FALSE, rights |-> "none", sale |-> FALSE,
     sensitive |-> FALSE, liability_cap |-> 0, modification |-> FALSE]

GraniteTexts ==
    {LawfulText(p[1], "none", p[2], p[3]) :
        p \in {<<"Employment", "none", "personal data">>,
               <<"Employment", "after_keyword", "personal data">>,
               <<"Rental", "none", "personal data">>,
               <<"Rental", "none", "none">>}}

AnalyzeWithGranite ==
    /\ request = None
    /\ \E t \in GraniteTexts, requested \in RequestJurisdictions, client \in GraniteOutcomes :
        /\ request' = Some([text |-> t, jurisdiction |-> requested])
        /\ granite' = Some(client)
        /\ response' = Some(AnalyzeContract(t, requested, Some(client)))
    /\ UNCHANGED <<calls, seen_issues, scoreVars, normVars, extractVars, gapVars, clientVars, bulkVars, contextVars, metadataVars, authVars, uploadVars, cleanVars>>

NextGranite == AnalyzeWithGranite

SpecGranite == InitEngine /\ [][NextGranite]_vars

\* C1: every compliance issue of a returned response has a law that is
\* applicable to the jurisdiction of the response.
C1_LawsApplicable ==
    response # None =>
        \A i \in DOMAIN response[1].compliance_issues :
            IsApplicable(response[1].compliance_issues[i].law, response[1].jurisdiction)

\* The LLM's own analysis is returned, one of its issues had a '|'-joined
\* law field and one an unknown law, and an issue is in the response.
C1_Witness ==
    /\ response # None
    /\ granite[1].kind = "response"
    /\ ~IsGraniteResponseMinimal(granite[1].doc)
    /\ \E i \in DOMAIN granite[1].doc.compliance_issues :
            Len(granite[1].doc.compliance_issues[i].law) > 1
    /\ \E i \in DOMAIN granite[1].doc.compliance_issues :
            granite[1].doc.compliance_issues[i].law = <<"HIPAA">>
    /\ response[1].compliance_issues # <<>>

\* C13: every result has at most 10 flagged clauses, ordered by priority
\* score descending, on the rule-engine path, the direct LLM path and the
\* merged path.
C13_AtMostTenSortedByPriority ==
    response # None /\ ~response[1].raised =>
        LET flagged == response[1].flagged_clauses
            j == response[1].jurisdiction
        IN  /\ Len(flagged) <= MaxCritical
            /\ \A i, k \in DOMAIN flagged :
                    i < k => PriorityScore(flagged[i], j) >= PriorityScore(flagged[k], j)

(***************************************************************************)
(* SpecCalls: several analyze_contract calls on one service without an     *)
(* LLM client, their steps interleaved in any order.                       *)
(***************************************************************************)
MaxCalls == 3

CallIds == 1..MaxCalls

\* seen_issues is a local of _get_intelligent_mock_analysis: one set per call.
ServiceScope(c) == 0

SeenScope(c) == c

\* An employment contract with the termination wording twice and a consent
\* gap, with and without the notice wording that makes the engine raise.
CallTexts ==
    {LawfulText("Employment", "repeated", notice, "personal data") :
        notice \in {"none", "after_keyword"}}

CallJurisdictions == {"MY", "US"}

IdleCall == [pc |-> "idle", request |-> None, pos |-> 1, flagged |-> <<>>, result |-> None]

InitCalls ==
    /\ calls = [c \in CallIds |-> IdleCall]
    /\ seen_issues = [scope \in 0..MaxCalls |-> {}]
    /\ request = None
    /\ granite = None
    /\ response = None
    /\ GapIdle
    /\ ClientIdle
    /\ BulkIdle /\ ContextIdle /\ MetadataIdle /\ AuthIdle /\ UploadIdle /\ CleanIdle
    /\ ScoreIdle
    /\ NormIdle
    /\ ExtractIdle

RawClauses(c) ==
    PerformComprehensiveContractAnalysis(
        calls[c].request[1].text,
        EffectiveJurisdiction(calls[c].request[1].jurisdiction)).flagged_clauses

otherVars == <<request, granite, response, scoreVars, normVars, extractVars, gapVars, clientVars, bulkVars, contextVars, metadataVars, authVars, uploadVars, cleanVars>>

\* analyze_contract up to the first statements of _get_intelligent_mock_analysis.
BeginCall ==
    \E c \in CallIds :
        /\ calls[c].pc = "idle"
        /\ \E t \in CallTexts, requested \in CallJurisdictions :
            calls' = [calls EXCEPT ![c] =
                        [IdleCall EXCEPT
                            !.pc = "analysis",
                            !.request = Some([text |-> t, jurisdiction |-> requested])]]
        /\ seen_issues' = [seen_issues EXCEPT ![SeenScope(c)] = {}]
        /\ UNCHANGED otherVars

\* _perform_comprehensive_contract_analysis: the raw clauses, or an exception
\* that leaves analyze_contract.
ComprehensiveAnalysis ==
    \E c \in CallIds :
        /\ calls[c].pc = "analysis"
        /\ calls' = [calls EXCEPT ![c] =
                IF PerformComprehensiveContractAnalysis(
                        calls[c].request[1].text,
                        EffectiveJurisdiction(calls[c].request[1].jurisdiction)).raised
                THEN [@ EXCEPT !.pc = "done",
                               !.result = Some(Response(RaisedException,
                                    EffectiveJurisdiction(calls[c].request[1].jurisdiction)))]
                ELSE [@ EXCEPT !.pc = "dedup"]]
        /\ UNCHANGED <<seen_issues, otherVars>>

\* One iteration of the deduplication loop.
DedupStep ==
    \E c \in CallIds :
        /\ calls[c].pc = "dedup"
        /\ calls[c].pos <= Len(RawClauses(c))
        /\ IF KeepsIssue(RawClauses(c)[calls[c].pos], seen_issues[SeenScope(c)])
           THEN /\ seen_issues' = [seen_issues EXCEPT ![SeenScope(c)] =
                                      @ \cup {IssueKey(RawClauses(c)[calls[c].pos])}]
                /\ calls' = [calls EXCEPT
                                ![c].pos = @ + 1,
                                ![c].flagged = Append(@, RawClauses(c)[calls[c].pos])]
           ELSE /\ calls' = [calls EXCEPT ![c].pos = @ + 1]
                /\ UNCHANGED seen_issues
        /\ UNCHANGED otherVars

\* The rest of the analysis and step 5 of analyze_contract.
FinishCall ==
    \E c \in CallIds :
        /\ calls[c].pc = "dedup"
        /\ calls[c].pos > Len(RawClauses(c))
        /\ calls' = [calls EXCEPT
                ![c].pc = "done",
                ![c].result =
                    Some(ParseAndValidate(
                        CompleteAnalysis(calls[c].flagged, calls[c].request[1].text,
                            EffectiveJurisdiction(calls[c].request[1].jurisdiction)),
                        calls[c].request[1].text,
                        EffectiveJurisdiction(calls[c].request[1].jurisdiction)))]
        /\ UNCHANGED <<seen_issues, otherVars>>

NextCalls == BeginCall \/ ComprehensiveAnalysis \/ DedupStep \/ FinishCall

SpecCalls == InitCalls /\ [][NextCalls]_vars

\* C3: two finished rule-engine calls with the same (text, jurisdiction)
\* return the same summary, flagged clauses and compliance issues, in the
\* same order, however the calls of the service were interleaved.
C3_SameRequestSameResult ==
    \A c1, c2 \in CallIds :
        /\ calls[c1].pc = "done"
        /\ calls[c2].pc = "done"
        /\ calls[c1].request = calls[c2].request
        => calls[c1].result = calls[c2].result

\* Two calls with the same request returned flagged clauses while a call
\* with another request is inside its deduplication loop.
C3_Witness ==
    \E c1, c2, c3 \in CallIds :
        /\ c1 # c2
        /\ calls[c1].pc = "done"
        /\ calls[c2].pc = "done"
        /\ calls[c1].request = calls[c2].request
        /\ calls[c1].result[1].flagged_clauses # <<>>
        /\ calls[c3].pc = "dedup"
        /\ calls[c3].pos > 1
        /\ calls[c3].request # calls[c1].request

(***************************************************************************)
(* SpecBattery: the whole rule battery.  One analyze_contract call on a    *)
(* service without an LLM client, and one run of the compliance gap        *)
(* analyzer, on contracts in which each provision the employment and data  *)
(* protection rules look for may be absent or unlawful, and on texts of    *)
(* fewer than 100 characters.                                              *)
(***************************************************************************)
BatteryTexts ==
    [size : {"full"},
     type : ContractTypes,
     termination : {"none"},
     notice : {"none", "after_keyword"},
     hours : {0},
     overtime : BOOLEAN,
     leave : BOOLEAN,
     wage : BOOLEAN,
     low_salary : BOOLEAN,
     long_probation : BOOLEAN,
     rest_days : BOOLEAN,
     epf : BOOLEAN,
     socso : BOOLEAN,
     data : {"none", "personal data"},
     consent : BOOLEAN,
     rights : {"none", "opt-out"},
     sale : BOOLEAN,
     sensitive : {FALSE},
     liability_cap : {0},
     modification : {FALSE}]

\* One sentence naming the employer, or the first party, with or without
\* the termination wording, followed or not by "We keep personal data of the
\* parties."; the empty text is among them.
ShortTexts ==
    [size : {"short"},
     type : {"Employment", "General"},
     termination : {"none", "plain"},
     notice : {"none"},
     hours : {0},
     overtime : {FALSE},
     leave : {FALSE},
     wage : {FALSE},
     low_salary : {FALSE},
     long_probation : {FALSE},
     rest_days : {FALSE},
     epf : {FALSE},
     socso : {FALSE},
     data : {"none", "personal data"},
     consent : {FALSE},
     rights : {"none"},
     sale : {FALSE},
     sensitive : {FALSE},
     liability_cap : {0},
     modification : {FALSE}]

\* Texts in which health data is mentioned without the wording CCPA asks for.
SensitiveTexts ==
    {[LawfulText(type, "none", "none", "personal data") EXCEPT
        !.sensitive = TRUE, !.sale = sale, !.consent = consent] :
        type \in ContractTypes, sale \in BOOLEAN, consent \in BOOLEAN}

InitBattery ==
    /\ ServiceIdle
    /\ GapIdle
    /\ ClientIdle
    /\ BulkIdle /\ ContextIdle /\ MetadataIdle /\ AuthIdle /\ UploadIdle /\ CleanIdle
    /\ ScoreIdle
    /\ NormIdle
    /\ ExtractIdle

AnalyzeBattery ==
    /\ request = None
    /\ gap_request = None
    /\ \E t \in BatteryTexts \cup ShortTexts \cup SensitiveTexts,
          requested \in RequestJurisdictions :
        /\ request' = Some([text |-> t, jurisdiction |-> requested])
        /\ response' = Some(AnalyzeContract(t, requested, None))
    /\ UNCHANGED <<granite, calls, seen_issues, scoreVars, normVars, extractVars,
                   gapVars, clientVars, bulkVars, contextVars, metadataVars, authVars, uploadVars, cleanVars>>

\* _generate_smart_compliance_issues followed by _validate_compliance_issues,
\* as _get_intelligent_mock_analysis calls them.
AnalyzeGaps ==
    /\ gap_request = None
    /\ request = None
    /\ \E t \in BatteryTexts \cup ShortTexts \cup SensitiveTexts, j \in Jurisdictions :
        /\ gap_request' = Some([text |-> t, jurisdiction |-> j])
        /\ gap_issues' =
               Some(ValidateComplianceIssues(GenerateSmartComplianceIssues(t, j), j))
    /\ UNCHANGED <<serviceVars, scoreVars, normVars, extractVars, clientVars, bulkVars, contextVars, metadataVars, authVars, uploadVars, cleanVars>>

NextBattery == AnalyzeBattery \/ AnalyzeGaps

SpecBattery == InitBattery /\ [][NextBattery]_vars

\* C11: for a text of fewer than 100 characters and every jurisdiction,
\* analyze_contract returns without raising a result with no flagged clause
\* and no compliance issue whose summary indicates insubstantial input.
C11_ShortTextGivesEmptyResult ==
    /\ response # None
    /\ request[1].text.size = "short"
    => /\ ~response[1].raised
       /\ response[1].flagged_clauses = <<>>
       /\ response[1].compliance_issues = <<>>
       /\ response[1].summary.kind = "insubstantial input"

\* The checks of the employment block and of the data protection block that
\* fail on text t under jurisdiction j, read from the wording of the text.
EmploymentCheckFails(t, j) ==
    /\ t.type = "Employment"
    /\ j = "MY"
    /\ \/ t.notice # "after_keyword"
       \/ t.hours > 0
       \/ ~t.overtime
       \/ ~t.leave
       \/ ~t.rest_days
       \/ t.long_probation
       \/ t.low_salary
       \/ ~t.epf
       \/ ~t.socso

DataProtectionCheckFails(t, j) ==
    /\ HasDataProcessing(t)
    /\ \/ j \in {"MY", "SG", "EU"}
       \/ j = "US" /\ (~t.consent \/ t.rights # "opt-out")

IssuesFor(issues, name) == {i \in DOMAIN issues : issues[i].law = Law(name)}

\* C15: the gap analyzer emits at most one issue per applicable law, none for
\* another law, each with a non-empty missing_requirements list, and no
\* issue for a law none of whose checks fails.
C15_OneIssuePerApplicableLaw ==
    gap_issues # None =>
        LET issues == gap_issues[1]
            t == gap_request[1].text
            j == gap_request[1].jurisdiction
        IN  /\ \A i \in DOMAIN issues :
                /\ IsApplicable(issues[i].law, j)
                /\ issues[i].missing_requirements # <<>>
            /\ \A i, k \in DOMAIN issues : issues[i].law = issues[k].law => i = k
            /\ ~EmploymentCheckFails(t, j) => IssuesFor(issues, "EMPLOYMENT_ACT_MY") = {}
            /\ ~DataProtectionCheckFails(t, j) =>
                   \A name \in {"PDPA_MY", "PDPA_SG", "GDPR_EU", "CCPA_US"} :
                       IssuesFor(issues, name) = {}

\* An employment contract for MY that also processes personal data: two laws
\* apply and each gets its one issue.
C15_Witness ==
    /\ gap_issues # None
    /\ Len(gap_issues[1]) = 2
    /\ gap_request[1].jurisdiction = "MY"
    /\ gap_issues[1][1].law = Law("EMPLOYMENT_ACT_MY")
    /\ gap_issues[1][2].law = Law("PDPA_MY")

IsIn(item, items) == \E i \in DOMAIN items : items[i] = item

\* C16: in every issue of the gap analyzer the two lists have equal length
\* and the requirement of every failing check is present: in particular the
\* consent requirement whenever the consent check fails.
C16_RequirementsPairedWithRecommendations ==
    gap_issues # None =>
        LET issues == gap_issues[1]
            t == gap_request[1].text
        IN  \A i \in DOMAIN issues :
                /\ Len(issues[i].missing_requirements) = Len(issues[i].recommendations)
                /\ issues[i].law # Law("EMPLOYMENT_ACT_MY") /\ ~t.consent
                   => IsIn("explicit consent", issues[i].missing_requirements)

\* C17: every flagged clause of a rule-engine result carries an excerpt of
\* the contract, substantive and free of formatting, never a fixed label.
C17_ClauseTextIsExcerpt ==
    response # None /\ ~response[1].raised =>
        \A i \in DOMAIN response[1].flagged_clauses :
            /\ IsExcerpt(response[1].flagged_clauses[i].clause_text)
            /\ IsSubstantiveClause(response[1].flagged_clauses[i].clause_text)

(***************************************************************************)
(* The LLM client (backend/utils/ai_client/client.py)                      *)
(*                                                                         *)
(* The text the model generates is a sequence of tokens.  The structural   *)
(* characters are tokens of their own; a key with its colon, a complete    *)
(* member and a string are one token each:                                 *)
(*   "S"   "summary": "ok"                                                 *)
(*   "W"   "summary": "Contract analysis found issues with PDPA_MY"        *)
(*   "E"   "summary": "Error: Could not parse AI response"                 *)
(*   "F"   "flagged_clauses":                                              *)
(*   "C"   "compliance_issues":                                            *)
(*   "T"   "clause_text": "a", "issue": "i", "severity": "high"            *)
(*   "L"   "law": "PDPA_MY", "missing_requirements": ["r"],                *)
(*         "recommendations": ["c"]                                        *)
(*   "Q"   "law": "PDPA_MY", "missing_requirements": "r",                  *)
(*         "recommendations": "c"  (the fields strings, not lists)         *)
(*   "X"   "x"                     (a string value)                        *)
(*   "U"   "unterminated           (a string cut before its closing quote) *)
(*   "P"   Here is the analysis    (prose around the JSON)                 *)
(*   "nl"  a newline                                                       *)
(***************************************************************************)
MemberTokens == {"S", "W", "E", "T", "L", "Q"}
KeyTokens == {"F", "C"}
SummaryTokens == {"S", "W", "E"}
IssueTokens == {"L", "Q"}

\* Bounds: nested objects of flagged_clauses and entries of compliance_issues.
MaxNestedClauses == 2
MaxNestedIssues == 2

\* json.loads skips whitespace between tokens.
WithoutNewlines(text) == SelectSeq(text, LAMBDA tok : tok # "nl")

\* The JSON grammar over tokens: the index after the value that starts at i,
\* or 0 when no value starts there (json.loads raises JSONDecodeError).
RECURSIVE ValueEnd(_, _)
RECURSIVE MembersEnd(_, _)
RECURSIVE ElementsEnd(_, _)
ValueEnd(s, i) ==
    IF i > Len(s) THEN 0
    ELSE IF s[i] = "X" THEN i + 1
    ELSE IF s[i] = "{"
    THEN IF i + 1 <= Len(s) /\ s[i + 1] = "}" THEN i + 2 ELSE MembersEnd(s, i + 1)
    ELSE IF s[i] = "["
    THEN IF i + 1 <= Len(s) /\ s[i + 1] = "]" THEN i + 2 ELSE ElementsEnd(s, i + 1)
    ELSE 0

MembersEnd(s, i) ==
    LET after == IF i > Len(s) THEN 0
                 ELSE IF s[i] \in MemberTokens THEN i + 1
                 ELSE IF s[i] \in KeyTokens THEN ValueEnd(s, i + 1)
                 ELSE 0
    IN  IF after = 0 \/ after > Len(s) THEN 0
        ELSE IF s[after] = "}" THEN after + 1
        ELSE IF s[after] = "," THEN MembersEnd(s, after + 1)
        ELSE 0

ElementsEnd(s, i) ==
    LET after == ValueEnd(s, i)
    IN  IF after = 0 \/ after > Len(s) THEN 0
        ELSE IF s[after] = "]" THEN after + 1
        ELSE IF s[after] = "," THEN ElementsEnd(s, after + 1)
        ELSE 0

\* json.loads(text) returns (does not raise JSONDecodeError).
Loads(text) ==
    LET s == WithoutNewlines(text)
    IN  s # <<>> /\ ValueEnd(s, 1) = Len(s) + 1

\* The nesting depth of position i: 1 for the members of the outer object.
NestingDepth(s, i) ==
    Cardinality({k \in 1..(i - 1) : s[k] \in {"{", "["}})
      - Cardinality({k \in 1..(i - 1) : s[k] \in {"}", "]"}})

\* parsed.keys() of a parsed object, by the tokens that carry them.
Keys(text) ==
    LET s == WithoutNewlines(text)
    IN  {s[i] : i \in {k \in DOMAIN s : NestingDepth(s, k) = 1
                                         /\ s[k] \in MemberTokens \cup KeyTokens}}

\* _is_complete_analysis_response (lines 347-350).
IsCompleteAnalysisResponse(text) ==
    /\ Keys(text) \cap SummaryTokens # {}
    /\ {"F", "C"} \subseteq Keys(text)

\* _is_partial_compliance_issue (lines 352-355).
IsPartialComplianceIssue(text) == Keys(text) \cap IssueTokens # {}

\* _normalize_complete_response (lines 368-379) calls issue.copy() on every
\* entry of a truthy compliance_issues: a string entry, or the characters of a
\* string value, or the keys of an object value have no copy() (line 383).
NormalizeRaises(text) ==
    LET s == WithoutNewlines(text)
        at == {k \in DOMAIN s : NestingDepth(s, k) = 1 /\ s[k] = "C"}
    IN  \E k \in at :
            \/ s[k + 1] = "X"
            \/ s[k + 1] = "{" /\ s[k + 2] # "}"
            \/ /\ s[k + 1] = "["
               /\ \E e \in (k + 2)..ValueEnd(s, k + 1) - 1 :
                      NestingDepth(s, e) = 2 /\ s[e] = "X"

\* The key of the outer object whose value holds position i, or "".
EnclosingKey(s, i) ==
    LET at == {k \in 1..(i - 1) : NestingDepth(s, k) = 1 /\ s[k] \in KeyTokens}
    IN  IF at = {} THEN "" ELSE s[CHOOSE k \in at : \A m \in at : k >= m]

\* _normalize_compliance_issue (lines 381-405) on the members of an issue: a
\* string field becomes the list of that string.
NormalizeComplianceIssue(member) == IF member = "Q" THEN "L" ELSE member

\* _normalize_complete_response (lines 368-379): the entries of
\* compliance_issues are normalised.
NormalizeCompleteResponse(text) ==
    LET s == WithoutNewlines(text)
    IN  [k \in DOMAIN s |->
            IF NestingDepth(s, k) = 3 /\ EnclosingKey(s, k) = "C"
            THEN NormalizeComplianceIssue(s[k]) ELSE s[k]]

\* json.dumps of the parsed object: the same members, re-serialised.
Dumps(text) == WithoutNewlines(text)

\* _wrap_partial_response (lines 357-366).
WrapPartialResponse(text) ==
    LET s == Dumps(text)
        normalized_issue ==
            [k \in DOMAIN s |->
                IF NestingDepth(s, k) = 1 THEN NormalizeComplianceIssue(s[k]) ELSE s[k]]
    IN  <<"{", "W", ",", "F", "[", "]", ",", "C", "[">> \o normalized_issue \o <<"]", "}">>

\* The fallback of lines 340-345.
FallbackResponse == <<"{", "E", ",", "F", "[", "]", ",", "C", "[", "]", "}">>

Returned(kind, text) == [raised |-> FALSE, kind |-> kind, text |-> text]
Raised(kind) == [raised |-> TRUE, kind |-> kind, text |-> <<>>]

\* The first position from pos on that holds tok, or 0.
NextToken(text, pos, tok) ==
    LET at == {k \in pos..Len(text) : text[k] = tok}
    IN  IF at = {} THEN 0 ELSE CHOOSE k \in at : \A m \in at : k <= m

\* The pattern \{.*?\} of line 273: from a brace to the first closing brace.
BraceMatchEnd(text, open) == NextToken(text, open + 1, "}")

\* Lines 276-297: the matches of re.findall in order; the first match that
\* json.loads accepts decides the result.  <<>> when no match parses.
RECURSIVE TryMatches(_, _)
TryMatches(text, pos) ==
    LET open == NextToken(text, pos, "{")
        close == IF open = 0 THEN 0 ELSE BraceMatchEnd(text, open)
        match == SubSeq(text, open, close)
    IN  IF open = 0 \/ close = 0 THEN <<>>
        ELSE IF ~Loads(match) THEN TryMatches(text, close + 1)
        ELSE IF IsCompleteAnalysisResponse(match)
        THEN IF NormalizeRaises(match) THEN <<Raised("AttributeError")>>
             ELSE <<Returned("complete", Dumps(NormalizeCompleteResponse(match)))>>
        ELSE IF IsPartialComplianceIssue(match)
        THEN <<Returned("wrapped", WrapPartialResponse(match))>>
        ELSE <<Returned("as-is", match)>>

\* str.strip() of a text: newlines at both ends removed.
StripNewlines(text) ==
    LET kept == {k \in DOMAIN text : text[k] # "nl"}
    IN  IF kept = {} THEN <<>>
        ELSE SubSeq(text, CHOOSE k \in kept : \A m \in kept : k <= m,
                          CHOOSE k \in kept : \A m \in kept : k >= m)

\* str.split('\n')
RECURSIVE TokenLines(_)
TokenLines(text) ==
    LET nl == NextToken(text, 1, "nl")
    IN  IF nl = 0 THEN <<text>>
        ELSE <<SubSeq(text, 1, nl - 1)>> \o TokenLines(SubSeq(text, nl + 1, Len(text)))

\* '\n'.join(json_lines)
RECURSIVE JoinTokenLines(_)
JoinTokenLines(lines) ==
    IF lines = <<>> THEN <<>>
    ELSE IF Len(lines) = 1 THEN lines[1]
    ELSE lines[1] \o <<"nl">> \o JoinTokenLines(Tail(lines))

\* str.count
CountToken(text, tok) == Cardinality({k \in DOMAIN text : text[k] = tok})

\* The loop of lines 305-317: the first line that starts with a brace opens
\* the JSON with brace_count = 1; later lines are appended until the count of
\* their own braces brings it to zero.
RECURSIVE JsonLines(_, _, _, _)
JsonLines(lines, in_json, brace_count, json_lines) ==
    IF lines = <<>> THEN json_lines
    ELSE LET line == Head(lines)
         IN  IF line # <<>> /\ line[1] = "{" /\ ~in_json
             THEN JsonLines(Tail(lines), TRUE, 1, Append(json_lines, line))
             ELSE IF in_json
             THEN LET count == brace_count + CountToken(line, "{") - CountToken(line, "}")
                  IN  IF count = 0 THEN Append(json_lines, line)
                      ELSE JsonLines(Tail(lines), TRUE, count, Append(json_lines, line))
             ELSE JsonLines(Tail(lines), FALSE, brace_count, json_lines)

\* range(n) tokens
Closers(n, tok) == [k \in 1..n |-> tok]

\* str.rstrip(',')
RECURSIVE RStripCommas(_)
RStripCommas(text) ==
    IF text # <<>> /\ text[Len(text)] = ","
    THEN RStripCommas(SubSeq(text, 1, Len(text) - 1))
    ELSE text

\* _attempt_json_repair (lines 407-460): None, or the repaired string.
AttemptJsonRepair(incomplete_json) ==
    LET missing_brackets == CountToken(incomplete_json, "[") - CountToken(incomplete_json, "]")
        missing_braces == CountToken(incomplete_json, "{") - CountToken(incomplete_json, "}")
        closers == Closers(missing_brackets, "]") \o Closers(missing_braces, "}")
        stripped == StripNewlines(incomplete_json)
        repaired == stripped \o closers
        retried == RStripCommas(stripped) \o closers
    IN  IF Loads(repaired) THEN Some(repaired)
        ELSE IF stripped # <<>> /\ stripped[Len(stripped)] = "," /\ Loads(retried)
        THEN Some(retried)
        ELSE None

\* Lines 299-337: line parsing and repair.  <<>> when nothing is returned.
ParseLines(text) ==
    LET json_lines == JsonLines(TokenLines(StripNewlines(text)), FALSE, 0, <<>>)
        potential_json == JoinTokenLines(json_lines)
        repaired_json == AttemptJsonRepair(potential_json)
    IN  IF json_lines = <<>> THEN <<>>
        ELSE IF Loads(potential_json)
        THEN IF IsPartialComplianceIssue(potential_json)
             THEN <<Returned("wrapped", WrapPartialResponse(potential_json))>>
             ELSE <<Returned("lines", potential_json)>>
        ELSE IF repaired_json # None
        THEN <<Returned("repaired", repaired_json[1])>>
        ELSE <<>>

\* _extract_json_from_response (lines 260-345).
ExtractJsonFromResponse(text) ==
    LET matched == TryMatches(text, 1)
        parsed == ParseLines(text)
    IN  IF matched # <<>> THEN matched[1]
        ELSE IF parsed # <<>> THEN parsed[1]
        ELSE Returned("default", FallbackResponse)

\* The layouts of a generated object: on one line, a line per top-level
\* member, a line per token group (indented output), or line breaks only
\* inside the nested objects.
Layouts == {"compact", "members", "pretty", "nested"}
EntryKinds == {"objects", "strings"}
Proses == {"none", "before", "after"}

Break(layout, among) == IF layout \in among THEN <<"nl">> ELSE <<>>

NestedObject(member, layout) ==
    <<"{">> \o Break(layout, {"pretty", "nested"}) \o <<member>>
            \o Break(layout, {"pretty", "nested"}) \o <<"}">>

RECURSIVE Elements(_, _, _)
Elements(n, element, layout) ==
    IF n = 0 THEN <<>>
    ELSE IF n = 1 THEN element
    ELSE element \o <<",">> \o Break(layout, {"pretty"}) \o Elements(n - 1, element, layout)

\* The analysis object the prompt asks for: a summary, clauses flagged, issues.
AnalysisObject(clauses, issues, kind, layout) ==
    LET top == Break(layout, {"members", "pretty"})
        entry == CASE kind = "objects" -> NestedObject("L", layout)
                   [] kind = "scalars" -> NestedObject("Q", layout)
                   [] kind = "strings" -> <<"X">>
    IN  <<"{">> \o top \o <<"S", ",">> \o top
          \o <<"F", "[">> \o Elements(clauses, NestedObject("T", layout), layout) \o <<"]", ",">> \o top
          \o <<"C", "[">> \o Elements(issues, entry, layout) \o <<"]">> \o top \o <<"}">>

WithProse(text, prose) ==
    CASE prose = "none" -> text
      [] prose = "before" -> <<"P", "nl">> \o text
      [] prose = "after" -> text \o <<"nl", "P">>

\* Generation stopped inside a string value.
CutInString(text) == Append(text, "U")

CompleteTexts ==
    {WithProse(AnalysisObject(f, i, kind, layout), prose) :
        f \in 0..MaxNestedClauses, i \in 0..MaxNestedIssues,
        kind \in EntryKinds, layout \in Layouts, prose \in Proses}

\* What the model can generate: the object, complete or cut at any token
\* (max_new_tokens), or cut inside a string.
GeneratedTexts ==
    LET prefixes == UNION {{SubSeq(t, 1, n) : n \in 0..Len(t)} : t \in CompleteTexts}
    IN  prefixes \cup {CutInString(t) : t \in {p \in prefixes : p # <<>> /\ p[Len(p)] \in {"F", "C", ",", "["}}}

\* _make_request (lines 46-64), as analyze_contract calls it (line 191): the
\* model's text, then the extraction.
MakeRequest ==
    /\ generated_text = None
    /\ \E text \in GeneratedTexts :
          /\ generated_text' = Some(text)
          /\ client_result' = Some(ExtractJsonFromResponse(text))
    /\ UNCHANGED <<serviceVars, scoreVars, normVars, extractVars, gapVars, bulkVars, contextVars, metadataVars, authVars, uploadVars, cleanVars>>

InitClient ==
    /\ ServiceIdle /\ ScoreIdle /\ NormIdle /\ ExtractIdle /\ GapIdle /\ BulkIdle /\ ContextIdle /\ MetadataIdle /\ AuthIdle /\ UploadIdle /\ CleanIdle
    /\ generated_text = None
    /\ client_result = None

NextClient == MakeRequest
SpecClient == InitClient /\ [][NextClient]_vars

\* The text from its first brace on, without line breaks.
JsonPart(text) ==
    LET open == NextToken(text, 1, "{")
    IN  IF open = 0 THEN <<>> ELSE WithoutNewlines(SubSeq(text, open, Len(text)))

\* result is the generated object with its unmatched brackets and braces
\* closed: a prefix of the generated JSON (what is dropped is a trailing
\* comma or prose), then closers only.
IsRepairedObject(result, text) ==
    LET from == JsonPart(text)
        body == WithoutNewlines(result)
    IN  \E n \in 1..Len(from) :
            /\ n <= Len(body)
            /\ SubSeq(body, 1, n) = SubSeq(from, 1, n)
            /\ \A k \in (n + 1)..Len(from) : from[k] \in {",", "P"}
            /\ \A k \in (n + 1)..Len(body) : body[k] \in {"]", "}"}

\* C12: for every generated text, cut anywhere or not, the extraction returns
\* without raising a string that parses as a JSON object, which is either the
\* generated object with its unmatched brackets and braces closed or the
\* default object; and _attempt_json_repair gives None or a string that parses.
C12_ExtractionReturnsRepairedOrDefault ==
    client_result # None =>
        LET result == client_result[1]
            text == generated_text[1]
            repaired == AttemptJsonRepair(text)
        IN  /\ ~result.raised
            /\ Loads(result.text)
            /\ WithoutNewlines(result.text)[1] = "{"
            /\ result.text = FallbackResponse \/ IsRepairedObject(result.text, text)
            /\ repaired = None \/ Loads(repaired[1])

\* C18: a generated text that is a valid JSON object with the keys summary,
\* flagged_clauses and compliance_issues (its issues objects) comes back with
\* the same summary, flagged clauses and compliance issues, whatever the
\* number of nested objects and the layout.
C18_CompleteObjectReturnedUnchanged ==
    client_result # None =>
        LET result == client_result[1]
            text == generated_text[1]
        IN  Loads(text) /\ IsCompleteAnalysisResponse(text) /\ ~NormalizeRaises(text) =>
                /\ ~result.raised
                /\ WithoutNewlines(result.text) = WithoutNewlines(text)

(***************************************************************************)
(* Bulk processing                                                         *)
(* (DocumentProcessorService.process_bulk_documents and                    *)
(*  BulkProcessManager.process_bulk_documents)                             *)
(*                                                                         *)
(* A bulk request holds its contracts in input order; contract i is named  *)
(* by its index.  The analysis of a contract is "pending" before it is     *)
(* awaited, "running" while analyze_contract is in flight, and "returned"  *)
(* or "raised" afterwards.  Whether an analysis returns or raises is not   *)
(* decided by the bulk code.  The completion notification only logs.       *)
(***************************************************************************)
BulkServices == {"DocumentProcessorService", "BulkProcessManager"}
Priorities == {"urgent", "normal", "low"}

\* Bound: contracts of a bulk request.
MaxContracts == 6
\* BulkProcessManager.__init__: max_concurrent_tasks.
MaxConcurrentTasks == 5

Finished(task) == task \in {"returned", "raised"}

\* The entries of a results list: the response of a contract, the exception
\* its analysis raised, or the None that _create_error_response returns (its
\* ContractAnalysisResponse(...) lacks the required fields, lines 113-128).
ResponseOf(i) == [contract |-> i, kind |-> "response"]
ExceptionOf(i) == [contract |-> i, kind |-> "exception"]
ErrorResponseOf(i) == [contract |-> i, kind |-> "none"]

\* isinstance(r, ContractAnalysisResponse)
IsResponse(r) == r.kind = "response"

\* _validate_bulk_request (process_managers.py lines 47-58): no contracts.
ValidationFails(req) == req.service = "BulkProcessManager" /\ req.contracts = 0

\* The call: the request is validated, and no analysis has started.
ProcessBulkDocuments ==
    /\ bulk_request = None
    /\ \E service \in BulkServices, priority \in Priorities, n \in 0..MaxContracts :
          LET req == [service |-> service, priority |-> priority, contracts |-> n]
          IN  /\ bulk_request' = Some(req)
              /\ bulk_tasks' = [i \in 1..n |-> "pending"]
              /\ bulk_results' = <<>>
              /\ bulk_returned' = IF ValidationFails(req)
                                  THEN Some([raised |-> TRUE, results |-> <<>>])
                                  ELSE None
    /\ UNCHANGED <<serviceVars, scoreVars, normVars, extractVars, gapVars, clientVars,
                   contextVars, metadataVars, authVars, uploadVars, cleanVars>>

\* An analysis that starts whenever it is pending.
StartAtOnce(tasks, i) == tasks[i] = "pending"

\* The for loops (DocumentProcessorService lines 60-67, process_managers.py
\* lines 96-105): contract i is awaited after every contract before it.
SequentialStart(tasks, i) ==
    /\ tasks[i] = "pending"
    /\ \A k \in 1..(i - 1) : Finished(tasks[k])

\* asyncio.gather over all contracts (DocumentProcessorService lines 53-57);
\* BulkProcessManager runs them under Semaphore(max_concurrent_tasks)
\* (process_managers.py lines 62-65).
ConcurrentStart(service, tasks, i) ==
    /\ tasks[i] = "pending"
    /\ service = "BulkProcessManager" =>
          Cardinality({k \in DOMAIN tasks : tasks[k] = "running"}) < MaxConcurrentTasks

\* analyze_contract(contract) is entered.
StartAnalysis ==
    /\ bulk_request # None /\ bulk_returned = None
    /\ \E i \in DOMAIN bulk_tasks :
          /\ IF bulk_request[1].priority = "urgent"
             THEN ConcurrentStart(bulk_request[1].service, bulk_tasks, i)
             ELSE SequentialStart(bulk_tasks, i)
          /\ bulk_tasks' = [bulk_tasks EXCEPT ![i] = "running"]
    /\ UNCHANGED <<bulk_request, bulk_results, bulk_returned>>
    /\ UNCHANGED <<serviceVars, scoreVars, normVars, extractVars, gapVars, clientVars,
                   contextVars, metadataVars, authVars, uploadVars, cleanVars>>

\* What the sequential loops append for contract i: the response; for an
\* exception nothing (DocumentProcessorService line 67) or the error response
\* (process_managers.py lines 104-105).
SequentialAppend(service, results, i, outcome) ==
    IF outcome = "returned" THEN Append(results, ResponseOf(i))
    ELSE IF service = "BulkProcessManager" THEN Append(results, ErrorResponseOf(i))
    ELSE results

\* analyze_contract of contract i returns or raises.
FinishAnalysis ==
    /\ bulk_request # None /\ bulk_returned = None
    /\ \E i \in DOMAIN bulk_tasks, outcome \in {"returned", "raised"} :
          /\ bulk_tasks[i] = "running"
          /\ bulk_tasks' = [bulk_tasks EXCEPT ![i] = outcome]
          /\ bulk_results' =
                IF bulk_request[1].priority = "urgent" THEN bulk_results
                ELSE SequentialAppend(bulk_request[1].service, bulk_results, i, outcome)
    /\ UNCHANGED <<bulk_request, bulk_returned>>
    /\ UNCHANGED <<serviceVars, scoreVars, normVars, extractVars, gapVars, clientVars,
                   contextVars, metadataVars, authVars, uploadVars, cleanVars>>

\* asyncio.gather without return_exceptions: the first exception is raised.
GatherRaising(service, tasks) ==
    IF \E i \in DOMAIN tasks : tasks[i] = "raised"
    THEN [raised |-> TRUE, results |-> <<>>]
    ELSE [raised |-> FALSE, results |-> [i \in DOMAIN tasks |-> ResponseOf(i)]]

\* asyncio.gather(*tasks, return_exceptions=True): a result per contract in
\* input order.  DocumentProcessorService gathers the analyses themselves
\* (line 57); process_with_semaphore has turned an exception into the error
\* response before gather sees it (process_managers.py lines 66-72, 79).
Gather(service, tasks) ==
    [raised |-> FALSE,
     results |-> [i \in DOMAIN tasks |->
                    IF tasks[i] = "returned" THEN ResponseOf(i)
                    ELSE IF service = "BulkProcessManager" THEN ErrorResponseOf(i)
                    ELSE ExceptionOf(i)]]

\* [r for r in results if isinstance(r, ContractAnalysisResponse)]
\* (DocumentProcessorService line 77, process_managers.py lines 82-90).
ValidResults(results) == SelectSeq(results, IsResponse)

\* The return: every analysis has finished.  The urgent branch gathers and
\* both services filter; DocumentProcessorService filters the sequential list
\* as well, BulkProcessManager returns it as it is (line 107).
ReturnResults ==
    /\ bulk_request # None /\ bulk_returned = None
    /\ \A i \in DOMAIN bulk_tasks : Finished(bulk_tasks[i])
    /\ LET req == bulk_request[1]
           gathered == Gather(req.service, bulk_tasks)
       IN  /\ bulk_results' = IF req.priority = "urgent" THEN gathered.results ELSE bulk_results
           /\ bulk_returned' =
                IF req.priority = "urgent"
                THEN Some([raised |-> gathered.raised, results |-> ValidResults(gathered.results)])
                ELSE IF req.service = "DocumentProcessorService"
                THEN Some([raised |-> FALSE, results |-> ValidResults(bulk_results)])
                ELSE Some([raised |-> FALSE, results |-> bulk_results])
    /\ UNCHANGED <<bulk_request, bulk_tasks>>
    /\ UNCHANGED <<serviceVars, scoreVars, normVars, extractVars, gapVars, clientVars,
                   contextVars, metadataVars, authVars, uploadVars, cleanVars>>

InitBulk ==
    /\ ServiceIdle /\ ScoreIdle /\ NormIdle /\ ExtractIdle /\ GapIdle /\ ClientIdle
    /\ BulkIdle /\ ContextIdle /\ MetadataIdle /\ AuthIdle /\ UploadIdle /\ CleanIdle

NextBulk == ProcessBulkDocuments \/ StartAnalysis \/ FinishAnalysis \/ ReturnResults
SpecBulk == InitBulk /\ [][NextBulk]_vars

\* The contracts whose analysis returned, in input order.
RECURSIVE SucceededFrom(_, _)
SucceededFrom(tasks, i) ==
    IF i > Len(tasks) THEN <<>>
    ELSE (IF tasks[i] = "returned" THEN <<i>> ELSE <<>>) \o SucceededFrom(tasks, i + 1)

\* C19: for every priority and both services, once a validated batch has
\* returned, it returned a list and raised nothing, every contract was
\* analysed whatever the other analyses did, and the responses in the list are
\* the responses of the contracts whose analysis succeeded, in input order.
C19_FailureNeverAbortsBatch ==
    bulk_returned # None /\ ~ValidationFails(bulk_request[1]) =>
        LET responses == ValidResults(bulk_returned[1].results)
        IN  /\ ~bulk_returned[1].raised
            /\ \A i \in DOMAIN bulk_tasks : Finished(bulk_tasks[i])
            /\ [k \in DOMAIN responses |-> responses[k].contract] = SucceededFrom(bulk_tasks, 1)

\* An urgent batch has returned although the analysis of its first contract
\* raised; the analysis of a later contract succeeded.
C19_Witness ==
    /\ bulk_returned # None
    /\ bulk_request[1].priority = "urgent"
    /\ Len(bulk_tasks) >= 2
    /\ bulk_tasks[1] = "raised"
    /\ bulk_tasks[2] = "returned"
    /\ ~bulk_returned[1].raised
    /\ bulk_returned[1].results # <<>>

\* C20: in a batch that is not urgent, an analysis has started only if every
\* analysis before it has returned or raised; so at most one is in flight.
C20_SequentialWhenNotUrgent ==
    bulk_request # None /\ bulk_request[1].priority # "urgent" =>
        /\ \A i, k \in DOMAIN bulk_tasks :
              i < k /\ bulk_tasks[k] # "pending" => Finished(bulk_tasks[i])
        /\ Cardinality({i \in DOMAIN bulk_tasks : bulk_tasks[i] = "running"}) <= 1

\* A normal batch with its second analysis in flight after the first raised.
C20_Witness ==
    /\ bulk_request # None
    /\ bulk_request[1].priority = "normal"
    /\ Len(bulk_tasks) >= 3
    /\ bulk_tasks[1] = "raised"
    /\ bulk_tasks[2] = "running"
    /\ bulk_tasks[3] = "pending"

\* The analyze_contract calls in flight.
InFlight == {i \in DOMAIN bulk_tasks : bulk_tasks[i] = "running"}

C30_ManagerReturnsOnlyResponses ==
    /\ bulk_returned # None
    /\ bulk_request[1].service = "BulkProcessManager"
    /\ ~bulk_returned[1].raised
    => LET results == bulk_returned[1].results
       IN  /\ \A k \in DOMAIN results : results[k].kind \in {"response", "error response"}
           /\ bulk_request[1].priority # "urgent" =>
                 /\ Len(results) = bulk_request[1].contracts
                 /\ \A k \in DOMAIN results : results[k].contract = k

(***************************************************************************)
(* The fallback to the rule engine (analyze_contract, step 4)              *)
(***************************************************************************)
\* C22: when the LLM call raises, the response is the one the rule engine
\* gives for the same text and jurisdiction without a client; when the LLM
\* output parses and is minimal, the response is that one or the one made
\* from the LLM output merged with the rule engine's findings.
C22_LlmFailureFallsBackToRuleEngine ==
    response # None =>
        LET t == request[1].text
            j == EffectiveJurisdiction(request[1].jurisdiction)
            client == granite[1]
            engine == AnalyzeContract(t, request[1].jurisdiction, None)
            merged == EnhanceGraniteResponse(client.doc, GetIntelligentMockAnalysis(t, j))
        IN  /\ client.kind = "api_error" => response[1] = engine
            /\ client.kind = "response" /\ client.doc.valid
                 /\ IsGraniteResponseMinimal(client.doc) =>
                    \/ response[1] = engine
                    \/ ~merged.raised /\ response[1] = ParseAndValidate(merged, t, j)

\* The LLM call raised, and the response carries the rule engine's flagged
\* clause and compliance issue.
C22_Witness ==
    /\ response # None
    /\ granite[1].kind = "api_error"
    /\ ~response[1].raised
    /\ response[1].flagged_clauses # <<>>
    /\ response[1].compliance_issues # <<>>
    /\ response[1] = AnalyzeContract(request[1].text, request[1].jurisdiction, None)

(***************************************************************************)
(* The general contract-law checks (_analyze_general_contract_issues)      *)
(* on the rule-engine path.                                                *)
(***************************************************************************)
\* The amounts liability is limited to: none, below 1000 and above.
LiabilityCaps == {0, 500, 999, 50000}

\* Contracts that are lawful but for their liability cap and their
\* modification clause, with and without payment terms and data wording.
GeneralTexts ==
    {[LawfulText(type, "none", "none", data) EXCEPT
        !.liability_cap = cap, !.modification = modification, !.wage = wage] :
        type \in ContractTypes \cup {"Service", "General"}, data \in {"none", "personal data"},
        cap \in LiabilityCaps, modification \in BOOLEAN, wage \in BOOLEAN}

AnalyzeGeneralTerms ==
    /\ request = None
    /\ \E t \in GeneralTexts, requested \in RequestJurisdictions :
        /\ request' = Some([text |-> t, jurisdiction |-> requested])
        /\ response' = Some(AnalyzeContract(t, requested, None))
    /\ UNCHANGED <<granite, calls, seen_issues, scoreVars, normVars, extractVars, gapVars,
                   clientVars, bulkVars, contextVars, metadataVars, authVars, uploadVars, cleanVars>>

NextGeneral == AnalyzeGeneralTerms
SpecGeneral == InitEngine /\ [][NextGeneral]_vars

FlagsRule(resp, rule) ==
    \E k \in DOMAIN resp.flagged_clauses : resp.flagged_clauses[k].rule = rule

\* C24: on the rule-engine path, for every jurisdiction and contract type,
\* the result for a contract that limits liability to less than 1000 holds
\* the flagged clause of the liability check, and the result for a contract
\* with a unilateral modification clause holds the flagged clause of the
\* modification check.
C24_GeneralChecksReachOutput ==
    response # None /\ ~response[1].raised =>
        LET t == request[1].text
        IN  /\ t.liability_cap \in 1..999 => FlagsRule(response[1], "liability")
            /\ t.modification => FlagsRule(response[1], "modification")

(***************************************************************************)
(* The clause text of a flagged clause                                     *)
(* (_extract_clause_context and the rules that cut the text themselves)    *)
(*                                                                         *)
(* A contract text is a sequence of characters; only whether a character   *)
(* is whitespace matters here, so a text is made of words of "x" separated *)
(* by runs of blanks.  A match is the span [start_pos, end_pos) of the     *)
(* text, as re's match.start() and match.end() give it.                    *)
(***************************************************************************)
\* _extract_clause_context: context_chars.
ContextWindow == 150
\* The excerpt of the contact section (lines 1986, 2201).
ContactChars == 300
\* The suffix of a cut text.
Ellipsis == <<".", ".", ".">>

\* The text of n characters with words of `word` characters and `gap` blanks
\* between them.
TextOf(n, word, gap) ==
    [i \in 1..n |-> IF (i - 1) % (word + gap) < word THEN "x" ELSE " "]

\* s[a:b] of Python, for 0 <= a and b <= len(s).
Slice(s, a, b) == IF a < b THEN SubSeq(s, a + 1, b) ELSE <<>>

\* re.sub(r'\s+', ' ', s): every run of whitespace becomes one blank.
CollapseWhitespace(s) ==
    LET kept == SelectSeq([i \in DOMAIN s |-> i],
                          LAMBDA i : ~IsSpace(s[i]) \/ i = 1 \/ ~IsSpace(s[i - 1]))
    IN  [k \in DOMAIN kept |-> IF IsSpace(s[kept[k]]) THEN " " ELSE s[kept[k]]]

\* s[:limit] + ("..." if len(s) > limit else "")
CutWithEllipsis(s, limit) ==
    IF Len(s) > limit THEN SubSeq(s, 1, limit) \o Ellipsis ELSE s

\* _extract_clause_context (lines 1902-1919).
ExtractClauseContext(text, start_pos, end_pos) ==
    LET start_context == Max(0, start_pos - ContextWindow)
        end_context == Min(Len(text), end_pos + ContextWindow)
        context == Strip(CollapseWhitespace(Slice(text, start_context, end_context)))
    IN  CutWithEllipsis(context, ContextChars)

\* How the rules derive the clause_text of a match:
\*   "context"  _extract_clause_context around the match (lines 1682-1876)
\*   "excerpt"  match.group(0)[:200] + "..." (lines 1645, 1756, 1887)
\*   "match"    match.group(0).strip(), flagged if longer than 20 characters
\*              (the CCPA clause rules, lines 2116-2117, 2135, 2155, 2172, 2212)
\*   "contact"  contact_section[:300] + "..." (lines 1986, 2201)
ClauseTextRules == {"context", "excerpt", "match", "contact"}

\* The clause_text a rule attaches to the match, None when it flags nothing.
ClauseTextOf(rule, text, start_pos, end_pos) ==
    LET group == Slice(text, start_pos, end_pos)
    IN  CASE rule = "context" -> Some(ExtractClauseContext(text, start_pos, end_pos))
          [] rule = "excerpt" -> Some(CutWithEllipsis(group, ContextChars))
          [] rule = "match" -> IF Len(Strip(group)) > MinClauseChars
                               THEN Some(Strip(group)) ELSE None
          [] rule = "contact" -> Some(CutWithEllipsis(group, ContactChars))

\* Bounds: the lengths of the texts, of their words and gaps, and the spans.
TextLengths == {40, 190, 200, 201, 320, 420}
WordLengths == {7, 60}
GapLengths == {1, 3}
MatchStarts == {0, 20, 160}
MatchLengths == {8, 30, 210, 320}

\* A rule matches a span of a contract text and builds the clause text.
FlagClause ==
    /\ context_call = None
    /\ \E rule \in ClauseTextRules, n \in TextLengths, word \in WordLengths,
          gap \in GapLengths, start_pos \in MatchStarts, len \in MatchLengths :
          /\ start_pos + len <= n
          /\ context_call' = Some([rule |-> rule, length |-> n, word |-> word, gap |-> gap,
                                   start_pos |-> start_pos, end_pos |-> start_pos + len])
          /\ context_text' = ClauseTextOf(rule, TextOf(n, word, gap), start_pos, start_pos + len)
    /\ UNCHANGED <<serviceVars, scoreVars, normVars, extractVars, gapVars, clientVars,
                   bulkVars, metadataVars, authVars, uploadVars, cleanVars>>

InitContext ==
    /\ ServiceIdle /\ ScoreIdle /\ NormIdle /\ ExtractIdle /\ GapIdle /\ ClientIdle
    /\ BulkIdle /\ ContextIdle /\ MetadataIdle /\ AuthIdle /\ UploadIdle /\ CleanIdle

NextContext == FlagClause
SpecContext == InitContext /\ [][NextContext]_vars

\* C25: every clause text a rule of the Clause Violation Detector attaches
\* to a match has at most 200 characters, for the rules that take the
\* context window, the CCPA clause rules and the contact-section rule.
C25_ClauseTextAtMost200 ==
    context_text # None => Len(context_text[1]) <= 200

(***************************************************************************)
(* The Contract Classifier (_analyze_contract_metadata, lines 941-1091)    *)
(*                                                                         *)
(* A contract text is a sequence of characters and `indicator in           *)
(* text_lower` is the search for a substring.  The metadata of the model   *)
(* are the contract type, the scores and the five content flags; the       *)
(* sections are the Section Extractor's, and the detected jurisdictions    *)
(* and the word counts are read by no rule.                                *)
(***************************************************************************)
\* type_indicators (lines 952-988), in the order of the dictionary.
CandidateTypes == <<"Employment", "Service", "Privacy", "NDA", "Rental", "Sales", "Partnership">>

TypeIndicators ==
    [Employment |->
        [strong |->
            {<<"e", "m", "p", "l", "o", "y", "e", "e">>, <<"e", "m", "p", "l", "o", "y", "e", "r">>,
             <<"e", "m", "p", "l", "o", "y", "m", "e", "n", "t">>,
             <<"p", "o", "s", "i", "t", "i", "o", "n">>,
             <<"j", "o", "b", " ", "d", "u", "t", "i", "e", "s">>,
             <<"w", "o", "r", "k", "p", "l", "a", "c", "e">>,
             <<"t", "e", "r", "m", "i", "n", "a", "t", "i", "o", "n", " ", "o", "f", " ", "e", "m", "p", "l", "o", "y", "m", "e", "n", "t">>},
         moderate |->
            {<<"s", "a", "l", "a", "r", "y">>, <<"w", "a", "g", "e">>,
             <<"w", "o", "r", "k", " ", "s", "c", "h", "e", "d", "u", "l", "e">>,
             <<"b", "e", "n", "e", "f", "i", "t", "s">>, <<"l", "e", "a", "v", "e">>,
             <<"r", "e", "s", "i", "g", "n", "a", "t", "i", "o", "n">>},
         weak |->
            {<<"w", "o", "r", "k">>, <<"d", "u", "t", "i", "e", "s">>,
             <<"r", "e", "s", "p", "o", "n", "s", "i", "b", "i", "l", "i", "t", "i", "e", "s">>}],
     Service |->
        [strong |->
            {<<"s", "e", "r", "v", "i", "c", "e", " ", "p", "r", "o", "v", "i", "d", "e", "r">>,
             <<"c", "l", "i", "e", "n", "t">>,
             <<"d", "e", "l", "i", "v", "e", "r", "a", "b", "l", "e", "s">>,
             <<"s", "c", "o", "p", "e", " ", "o", "f", " ", "w", "o", "r", "k">>,
             <<"s", "t", "a", "t", "e", "m", "e", "n", "t", " ", "o", "f", " ", "w", "o", "r", "k">>},
         moderate |->
            {<<"s", "e", "r", "v", "i", "c", "e", "s">>,
             <<"p", "e", "r", "f", "o", "r", "m", "a", "n", "c", "e">>,
             <<"c", "o", "m", "p", "l", "e", "t", "i", "o", "n">>,
             <<"m", "i", "l", "e", "s", "t", "o", "n", "e">>},
         weak |->
            {<<"p", "r", "o", "v", "i", "d", "e">>, <<"d", "e", "l", "i", "v", "e", "r">>,
             <<"c", "o", "m", "p", "l", "e", "t", "e">>}],
     Privacy |->
        [strong |->
            {<<"p", "r", "i", "v", "a", "c", "y", " ", "p", "o", "l", "i", "c", "y">>,
             <<"p", "r", "i", "v", "a", "c", "y", " ", "n", "o", "t", "i", "c", "e">>,
             <<"c", "a", "l", "i", "f", "o", "r", "n", "i", "a", " ", "c", "o", "n", "s", "u", "m", "e", "r", " ", "p", "r", "i", "v", "a", "c", "y", " ", "a", "c", "t">>,
             <<"c", "c", "p", "a">>,
             <<"p", "e", "r", "s", "o", "n", "a", "l", " ", "i", "n", "f", "o", "r", "m", "a", "t", "i", "o", "n", " ", "c", "o", "l", "l", "e", "c", "t", "i", "o", "n">>,
             <<"p", "r", "i", "v", "a", "c", "y", " ", "r", "i", "g", "h", "t", "s">>},
         moderate |->
            {
             <<"p", "e", "r", "s", "o", "n", "a", "l", " ", "i", "n", "f", "o", "r", "m", "a", "t", "i", "o", "n">>,
             <<"d", "a", "t", "a", " ", "c", "o", "l", "l", "e", "c", "t", "i", "o", "n">>,
             <<"c", "o", "n", "s", "u", "m", "e", "r", " ", "r", "i", "g", "h", "t", "s">>,
             <<"p", "r", "i", "v", "a", "c", "y">>,
             <<"c", "a", "l", "i", "f", "o", "r", "n", "i", "a", " ", "r", "e", "s", "i", "d", "e", "n", "t">>},
         weak |->
            {<<"c", "o", "l", "l", "e", "c", "t">>,
             <<"i", "n", "f", "o", "r", "m", "a", "t", "i", "o", "n">>, <<"d", "a", "t", "a">>}],
     NDA |->
        [strong |->
            {<<"n", "o", "n", "-", "d", "i", "s", "c", "l", "o", "s", "u", "r", "e">>,
             <<"c", "o", "n", "f", "i", "d", "e", "n", "t", "i", "a", "l", "i", "t", "y", " ", "a", "g", "r", "e", "e", "m", "e", "n", "t">>,
             <<"t", "r", "a", "d", "e", " ", "s", "e", "c", "r", "e", "t">>,
             <<"p", "r", "o", "p", "r", "i", "e", "t", "a", "r", "y", " ", "i", "n", "f", "o", "r", "m", "a", "t", "i", "o", "n">>},
         moderate |->
            {<<"c", "o", "n", "f", "i", "d", "e", "n", "t", "i", "a", "l">>,
             <<"p", "r", "o", "p", "r", "i", "e", "t", "a", "r", "y">>,
             <<"c", "o", "n", "f", "i", "d", "e", "n", "t", "i", "a", "l", "i", "t", "y">>},
         weak |->
            {<<"i", "n", "f", "o", "r", "m", "a", "t", "i", "o", "n">>,
             <<"d", "i", "s", "c", "l", "o", "s", "u", "r", "e">>}],
     Rental |->
        [strong |->
            {<<"l", "a", "n", "d", "l", "o", "r", "d">>, <<"t", "e", "n", "a", "n", "t">>,
             <<"l", "e", "a", "s", "e", " ", "a", "g", "r", "e", "e", "m", "e", "n", "t">>,
             <<"r", "e", "n", "t", "a", "l", " ", "a", "g", "r", "e", "e", "m", "e", "n", "t">>,
             <<"p", "r", "e", "m", "i", "s", "e", "s">>},
         moderate |->
            {<<"r", "e", "n", "t">>, <<"l", "e", "a", "s", "e">>,
             <<"p", "r", "o", "p", "e", "r", "t", "y">>,
             <<"o", "c", "c", "u", "p", "a", "n", "c", "y">>},
         weak |->
            {<<"m", "o", "n", "t", "h", "l", "y">>, <<"d", "e", "p", "o", "s", "i", "t">>}],
     Sales |->
        [strong |->
            {
             <<"p", "u", "r", "c", "h", "a", "s", "e", " ", "a", "g", "r", "e", "e", "m", "e", "n", "t">>,
             <<"s", "a", "l", "e", " ", "a", "g", "r", "e", "e", "m", "e", "n", "t">>,
             <<"b", "u", "y", "e", "r">>, <<"s", "e", "l", "l", "e", "r">>,
             <<"t", "r", "a", "n", "s", "f", "e", "r", " ", "o", "f", " ", "o", "w", "n", "e", "r", "s", "h", "i", "p">>},
         moderate |->
            {<<"p", "u", "r", "c", "h", "a", "s", "e">>, <<"s", "a", "l", "e">>,
             <<"g", "o", "o", "d", "s">>, <<"p", "r", "o", "d", "u", "c", "t", "s">>,
             <<"d", "e", "l", "i", "v", "e", "r", "y">>},
         weak |->
            {<<"b", "u", "y">>, <<"s", "e", "l", "l">>, <<"p", "a", "y", "m", "e", "n", "t">>}],
     Partnership |->
        [strong |->
            {
             <<"p", "a", "r", "t", "n", "e", "r", "s", "h", "i", "p", " ", "a", "g", "r", "e", "e", "m", "e", "n", "t">>,
             <<"j", "o", "i", "n", "t", " ", "v", "e", "n", "t", "u", "r", "e">>,
             <<"b", "u", "s", "i", "n", "e", "s", "s", " ", "p", "a", "r", "t", "n", "e", "r", "s", "h", "i", "p">>,
             <<"p", "r", "o", "f", "i", "t", " ", "s", "h", "a", "r", "i", "n", "g">>},
         moderate |->
            {<<"p", "a", "r", "t", "n", "e", "r">>,
             <<"p", "a", "r", "t", "n", "e", "r", "s", "h", "i", "p">>,
             <<"c", "o", "l", "l", "a", "b", "o", "r", "a", "t", "i", "o", "n">>,
             <<"v", "e", "n", "t", "u", "r", "e">>},
         weak |->
            {<<"t", "o", "g", "e", "t", "h", "e", "r">>, <<"j", "o", "i", "n", "t">>,
             <<"s", "h", "a", "r", "e">>}]]

\* The weights of lines 997, 1002 and 1007 and the threshold of line 1014.
StrongWeight == 3
ModerateWeight == 2
WeakWeight == 1
MinTypeScore == 3

\* contract_text.lower()
TextLower(text) == [i \in DOMAIN text |-> Lower(text[i])]

\* phrase in text_lower
PhraseIn(phrase, text_lower) == \E p \in DOMAIN text_lower : HasAt(text_lower, p, phrase)

\* The indicators of a family that occur in the text.
Hits(indicators, text_lower) == Cardinality({k \in indicators : PhraseIn(k, text_lower)})

\* The score of a candidate type (lines 991-1009).
TypeScore(type, text_lower) ==
    StrongWeight * Hits(TypeIndicators[type].strong, text_lower)
    + ModerateWeight * Hits(TypeIndicators[type].moderate, text_lower)
    + WeakWeight * Hits(TypeIndicators[type].weak, text_lower)

TypeScores(text_lower) ==
    [k \in DOMAIN CandidateTypes |-> TypeScore(CandidateTypes[k], text_lower)]

\* max(type_scores, key=type_scores.get): the first type with the highest score.
BestType(type_scores) ==
    SetMin({k \in DOMAIN type_scores : \A i \in DOMAIN type_scores : type_scores[i] <= type_scores[k]})

\* A selection that asks for more than the threshold.
SelectAboveThreshold(type_scores) ==
    IF type_scores[BestType(type_scores)] > MinTypeScore
    THEN CandidateTypes[BestType(type_scores)]
    ELSE "General"

\* Lines 949 and 1011-1015.
SelectType(type_scores) ==
    IF type_scores[BestType(type_scores)] >= MinTypeScore
    THEN CandidateTypes[BestType(type_scores)]
    ELSE "General"

\* has_data_processing (lines 1020-1025).
DataProcessingPhrases ==
    {<<"p", "e", "r", "s", "o", "n", "a", "l", " ", "d", "a", "t", "a">>,
     <<"d", "a", "t", "a", " ", "p", "r", "o", "c", "e", "s", "s", "i", "n", "g">>,
     <<"d", "a", "t", "a", " ", "p", "r", "o", "t", "e", "c", "t", "i", "o", "n">>,
     <<"p", "r", "i", "v", "a", "c", "y", " ", "p", "o", "l", "i", "c", "y">>,
     <<"d", "a", "t", "a", " ", "s", "u", "b", "j", "e", "c", "t">>, <<"g", "d", "p", "r">>,
     <<"p", "d", "p", "a">>,
     <<"c", "o", "l", "l", "e", "c", "t", " ", "i", "n", "f", "o", "r", "m", "a", "t", "i", "o", "n">>,
     <<"p", "r", "o", "c", "e", "s", "s", " ", "d", "a", "t", "a">>,
     <<"p", "e", "r", "s", "o", "n", "a", "l", " ", "i", "n", "f", "o", "r", "m", "a", "t", "i", "o", "n">>,
     <<"c", "a", "l", "i", "f", "o", "r", "n", "i", "a">>, <<"c", "c", "p", "a">>,
     <<"c", "o", "n", "s", "u", "m", "e", "r", " ", "r", "i", "g", "h", "t", "s">>,
     <<"p", "r", "i", "v", "a", "c", "y", " ", "r", "i", "g", "h", "t", "s">>,
     <<"c", "o", "l", "l", "e", "c", "t", " ", "p", "e", "r", "s", "o", "n", "a", "l">>,
     <<"s", "h", "a", "r", "e", " ", "d", "a", "t", "a">>,
     <<"s", "e", "l", "l", " ", "d", "a", "t", "a">>,
     <<"s", "a", "l", "e", " ", "o", "f", " ", "p", "e", "r", "s", "o", "n", "a", "l", " ", "i", "n", "f", "o", "r", "m", "a", "t", "i", "o", "n">>}

\* has_termination_clauses (lines 1027-1030).
TerminationPhrases ==
    {<<"t", "e", "r", "m", "i", "n", "a", "t", "i", "o", "n">>,
     <<"t", "e", "r", "m", "i", "n", "a", "t", "e", " ", "t", "h", "i", "s">>,
     <<"e", "n", "d", " ", "o", "f", " ", "c", "o", "n", "t", "r", "a", "c", "t">>,
     <<"c", "o", "n", "t", "r", "a", "c", "t", " ", "e", "x", "p", "i", "r", "y">>,
     <<"c", "a", "n", "c", "e", "l", "l", "a", "t", "i", "o", "n">>,
     <<"b", "r", "e", "a", "c", "h", " ", "o", "f", " ", "c", "o", "n", "t", "r", "a", "c", "t">>,
     <<"d", "i", "s", "s", "o", "l", "u", "t", "i", "o", "n">>}

\* has_payment_terms (lines 1032-1035).
PaymentPhrases ==
    {<<"p", "a", "y", "m", "e", "n", "t", " ", "t", "e", "r", "m", "s">>,
     <<"p", "a", "y", "m", "e", "n", "t", " ", "s", "c", "h", "e", "d", "u", "l", "e">>,
     <<"c", "o", "m", "p", "e", "n", "s", "a", "t", "i", "o", "n">>,
     <<"r", "e", "m", "u", "n", "e", "r", "a", "t", "i", "o", "n">>,
     <<"s", "a", "l", "a", "r", "y">>, <<"w", "a", "g", "e">>, <<"f", "e", "e">>,
     <<"a", "m", "o", "u", "n", "t", " ", "d", "u", "e">>, <<"i", "n", "v", "o", "i", "c", "e">>}

\* has_liability_clauses (lines 1037-1040).
LiabilityPhrases ==
    {<<"l", "i", "a", "b", "i", "l", "i", "t", "y">>,
     <<"l", "i", "a", "b", "l", "e", " ", "f", "o", "r">>, <<"d", "a", "m", "a", "g", "e", "s">>,
     <<"i", "n", "d", "e", "m", "n", "i", "f", "y">>,
     <<"i", "n", "d", "e", "m", "n", "i", "f", "i", "c", "a", "t", "i", "o", "n">>,
     <<"l", "i", "m", "i", "t", "a", "t", "i", "o", "n", " ", "o", "f", " ", "l", "i", "a", "b", "i", "l", "i", "t", "y">>,
     <<"h", "o", "l", "d", " ", "h", "a", "r", "m", "l", "e", "s", "s">>,
     <<"r", "e", "s", "p", "o", "n", "s", "i", "b", "i", "l", "i", "t", "y", " ", "f", "o", "r">>}

\* has_ip_clauses (lines 1042-1045).
IpPhrases ==
    {
     <<"i", "n", "t", "e", "l", "l", "e", "c", "t", "u", "a", "l", " ", "p", "r", "o", "p", "e", "r", "t", "y">>,
     <<"c", "o", "p", "y", "r", "i", "g", "h", "t">>, <<"p", "a", "t", "e", "n", "t">>,
     <<"t", "r", "a", "d", "e", "m", "a", "r", "k">>,
     <<"w", "o", "r", "k", " ", "p", "r", "o", "d", "u", "c", "t">>,
     <<"i", "n", "v", "e", "n", "t", "i", "o", "n">>,
     <<"p", "r", "o", "p", "r", "i", "e", "t", "a", "r", "y", " ", "r", "i", "g", "h", "t", "s">>,
     <<"t", "r", "a", "d", "e", " ", "s", "e", "c", "r", "e", "t">>}

AnyPhraseIn(phrases, text_lower) == \E phrase \in phrases : PhraseIn(phrase, text_lower)

\* _analyze_contract_metadata.
AnalyzeContractMetadata(text) ==
    LET text_lower == TextLower(text)
        type_scores == TypeScores(text_lower)
    IN  [type |-> SelectType(type_scores),
         type_scores |-> type_scores,
         has_data_processing |-> AnyPhraseIn(DataProcessingPhrases, text_lower),
         has_termination_clauses |-> AnyPhraseIn(TerminationPhrases, text_lower),
         has_payment_terms |-> AnyPhraseIn(PaymentPhrases, text_lower),
         has_liability_clauses |-> AnyPhraseIn(LiabilityPhrases, text_lower),
         has_ip_clauses |-> AnyPhraseIn(IpPhrases, text_lower)]

\* The wordings the texts of the model are made of, each with the content
\* it speaks of.
Wordings ==
    <<[chars |-> <<"E", "m", "p", "l", "o", "y", "e", "e">>, content |-> {}],
      [chars |-> <<"s", "a", "l", "a", "r", "y">>, content |-> {"payment"}],
      [chars |-> <<"w", "o", "r", "k">>, content |-> {}],
      [chars |-> <<"c", "l", "i", "e", "n", "t">>, content |-> {}],
      [chars |-> <<"s", "e", "r", "v", "i", "c", "e", "s">>, content |-> {}],
      [chars |-> <<"p", "r", "i", "v", "a", "c", "y", " ", "p", "o", "l", "i", "c", "y">>, content |-> {"data"}],
      [chars |-> <<"i", "n", "f", "o", "r", "m", "a", "t", "i", "o", "n">>, content |-> {}],
      [chars |-> <<"t", "r", "a", "d", "e", " ", "s", "e", "c", "r", "e", "t">>, content |-> {"ip"}],
      [chars |-> <<"T", "e", "n", "a", "n", "t">>, content |-> {}],
      [chars |-> <<"r", "e", "n", "t">>, content |-> {}],
      [chars |-> <<"s", "e", "l", "l", "e", "r">>, content |-> {}],
      [chars |-> <<"j", "o", "i", "n", "t", " ", "v", "e", "n", "t", "u", "r", "e">>, content |-> {}],
      [chars |-> <<"t", "e", "r", "m", "i", "n", "a", "t", "i", "o", "n", " ", "o", "f", " ", "e", "m", "p", "l", "o", "y", "m", "e", "n", "t">>, content |-> {"termination"}],
      [chars |-> <<"l", "i", "a", "b", "i", "l", "i", "t", "y">>, content |-> {"liability"}],
      [chars |-> <<"i", "n", "v", "o", "i", "c", "e">>, content |-> {"payment"}],
      [chars |-> <<"d", "e", "p", "o", "s", "i", "t">>, content |-> {}],
      [chars |-> <<"p", "e", "r", "s", "o", "n", "a", "l", " ", "d", "a", "t", "a">>, content |-> {"data"}]>>

\* Bound: the wordings of a text.
MaxWordings == 2

\* The wordings of a text, joined by blanks.
RECURSIVE JoinWordings(_)
JoinWordings(ws) ==
    IF ws = <<>> THEN <<>>
    ELSE IF Len(ws) = 1 THEN Wordings[ws[1]].chars
    ELSE Wordings[ws[1]].chars \o <<" ">> \o JoinWordings(Tail(ws))

WordingLists == UNION {[1..n -> DOMAIN Wordings] : n \in 0..MaxWordings}

ClassifyContract ==
    /\ metadata_text = None
    /\ \E ws \in WordingLists :
          /\ metadata_text' = Some([wordings |-> ws, text |-> JoinWordings(ws)])
          /\ metadata' = Some(AnalyzeContractMetadata(JoinWordings(ws)))
    /\ UNCHANGED <<serviceVars, scoreVars, normVars, extractVars, gapVars, clientVars,
                   bulkVars, contextVars, authVars, uploadVars, cleanVars>>

InitMetadata ==
    /\ ServiceIdle /\ ScoreIdle /\ NormIdle /\ ExtractIdle /\ GapIdle /\ ClientIdle
    /\ BulkIdle /\ ContextIdle /\ MetadataIdle /\ AuthIdle /\ UploadIdle /\ CleanIdle

NextMetadata == ClassifyContract
SpecMetadata == InitMetadata /\ [][NextMetadata]_vars

\* Whether a text speaks of a content: one of its wordings does.
SpeaksOf(ws, content) == \E k \in DOMAIN ws : content \in Wordings[ws[k]].content

\* What the claim says of a classification whose types are `types`: the
\* scores are 3 per strong, 2 per moderate and 1 per weak keyword in the
\* text; the type is General exactly when no score reaches 3 and otherwise a
\* type with the highest score; it is one of `types`; and the content flags
\* follow the contents of the text alone.
ClassifiedAmong(types) ==
    metadata # None =>
        LET m == metadata[1]
            lower == TextLower(metadata_text[1].text)
            present(family) == {k \in family : \E p \in 1..(Len(lower) - Len(k) + 1) :
                                   \A i \in DOMAIN k : lower[p + i - 1] = k[i]}
            score(k) == 3 * Cardinality(present(TypeIndicators[CandidateTypes[k]].strong))
                        + 2 * Cardinality(present(TypeIndicators[CandidateTypes[k]].moderate))
                        + Cardinality(present(TypeIndicators[CandidateTypes[k]].weak))
            ws == metadata_text[1].wordings
        IN  /\ \A k \in DOMAIN CandidateTypes : m.type_scores[k] = score(k)
            /\ m.type = "General" <=> \A k \in DOMAIN CandidateTypes : score(k) < 3
            /\ m.type # "General" =>
                  \E k \in DOMAIN CandidateTypes :
                      /\ CandidateTypes[k] = m.type
                      /\ \A i \in DOMAIN CandidateTypes : score(i) <= score(k)
            /\ m.type \in types
            /\ m.has_data_processing = SpeaksOf(ws, "data")
            /\ m.has_termination_clauses = SpeaksOf(ws, "termination")
            /\ m.has_payment_terms = SpeaksOf(ws, "payment")
            /\ m.has_liability_clauses = SpeaksOf(ws, "liability")
            /\ m.has_ip_clauses = SpeaksOf(ws, "ip")

MaxFetches == 6

\* What requests.post and the lines after it meet (lines 71-84):
\*   "token"        status 200, a JSON object with an access_token
\*   "timeout"      requests.exceptions.Timeout
\*   "request"      another RequestException, raise_for_status included
\*   "not_json"     response.json() raises ValueError
\*   "no_token"     a JSON object or array without "access_token"
\*   "not_object"   a JSON null or number: the test `"access_token" not in
\*                  token_data` raises TypeError
IamOutcomes == {"token", "timeout", "request", "not_json", "no_token", "not_object"}

\* The exception _fetch_new_token ends with on a failing outcome: Timeout and
\* RequestException are wrapped (lines 88-92), ValueError is wrapped (lines
\* 93-94), the AuthenticationError of line 82 passes through, and a TypeError
\* is not among the handled types.
FetchRaises(outcome) ==
    CASE outcome = "token" -> "none"
      [] outcome \in {"timeout", "request", "not_json", "no_token"} -> "AuthenticationError"
      [] outcome = "not_object" -> "TypeError"

\* _fetch_new_token (lines 53-94): the token is stored only after the
\* response has been read (line 84).
FetchNewToken(cached, issued, outcome) ==
    IF outcome = "token"
    THEN [cache |-> Some(issued + 1), issued |-> issued + 1,
          returned |-> Some(issued + 1), raised |-> "none"]
    ELSE [cache |-> cached, issued |-> issued,
          returned |-> None, raised |-> FetchRaises(outcome)]

\* The test of line 48.
UsesCache(cached, force_refresh) == cached # None /\ ~force_refresh

\* get_access_token(force_refresh) (lines 35-51).
GetAccessToken ==
    \E force_refresh \in BOOLEAN, outcome \in IamOutcomes :
        LET fetched == ~UsesCache(access_token, force_refresh)
            result == IF fetched
                      THEN FetchNewToken(access_token, fetch_count, outcome)
                      ELSE [cache |-> access_token, issued |-> fetch_count,
                            returned |-> access_token, raised |-> "none"]
        IN  /\ fetched /\ outcome = "token" => fetch_count < MaxFetches
            /\ ~fetched => outcome = "token"
            /\ access_token' = result.cache
            /\ fetch_count' = result.issued
            /\ auth_call' = Some([op |-> "get_access_token",
                                  force_refresh |-> force_refresh,
                                  before |-> access_token,
                                  invalidated |-> auth_call # None
                                                  /\ auth_call[1].op # "get_access_token",
                                  fetched |-> fetched,
                                  returned |-> result.returned,
                                  raised |-> result.raised])
    /\ UNCHANGED <<serviceVars, scoreVars, normVars, extractVars, gapVars, clientVars,
                   bulkVars, contextVars, metadataVars, uploadVars, cleanVars>>

\* The record of a call that takes and returns nothing.
Invalidation(op, before) ==
    [op |-> op, force_refresh |-> FALSE, before |-> before, invalidated |-> FALSE,
     fetched |-> FALSE, returned |-> None, raised |-> "none"]

\* invalidate_token (lines 96-99).
InvalidateToken ==
    /\ access_token' = None
    /\ auth_call' = Some(Invalidation("invalidate_token", access_token))
    /\ UNCHANGED fetch_count
    /\ UNCHANGED <<serviceVars, scoreVars, normVars, extractVars, gapVars, clientVars,
                   bulkVars, contextVars, metadataVars, uploadVars, cleanVars>>

\* WatsonXClient.refresh_authentication (client.py lines 237-240) calls
\* invalidate_token of its IBMCloudAuth.
RefreshAuthentication ==
    /\ access_token' = None
    /\ auth_call' = Some(Invalidation("refresh_authentication", access_token))
    /\ UNCHANGED fetch_count
    /\ UNCHANGED <<serviceVars, scoreVars, normVars, extractVars, gapVars, clientVars,
                   bulkVars, contextVars, metadataVars, uploadVars, cleanVars>>

InitAuth ==
    /\ ServiceIdle /\ ScoreIdle /\ NormIdle /\ ExtractIdle /\ GapIdle /\ ClientIdle
    /\ BulkIdle /\ ContextIdle /\ MetadataIdle /\ AuthIdle /\ UploadIdle /\ CleanIdle

NextAuth == GetAccessToken \/ InvalidateToken \/ RefreshAuthentication
SpecAuth == InitAuth /\ [][NextAuth]_vars

\* C29: after any sequence of calls, the last get_access_token posted to
\* the endpoint exactly when no token was cached or force_refresh was set,
\* and otherwise returned the cached token; it posted when the call before
\* it was invalidate_token or refresh_authentication; and when its fetch
\* failed it raised AuthenticationError and left the cached token as it was.
C29_TokenCachedUntilInvalidated ==
    auth_call # None /\ auth_call[1].op = "get_access_token" =>
        LET c == auth_call[1]
        IN  /\ c.fetched <=> (c.before = None \/ c.force_refresh)
            /\ ~c.fetched => c.returned = c.before /\ c.raised = "none"
            /\ c.invalidated => c.fetched
            /\ c.fetched /\ c.returned = None =>
                  /\ c.raised = "AuthenticationError"
                  /\ access_token = c.before
            /\ c.fetched /\ c.returned # None =>
                  /\ access_token = c.returned
                  /\ c.returned # c.before

(***************************************************************************)
(* One uploaded document                                                   *)
(* (DocumentProcessorService.process_single_document)                      *)
(*                                                                         *)
(* A file is its size in bytes and its name, a sequence of characters.     *)
(* What text extraction and the analysis do with a file that passed the    *)
(* validation is not decided here: either may return or raise.             *)
(***************************************************************************)
\* DocumentProcessorService.__init__: max_file_size = 10 * 1024 * 1024.
MaxFileSize == 10485760
\* DocumentProcessorService.__init__: supported_formats.
SupportedFormats == {<<".", "p", "d", "f">>, <<".", "d", "o", "c", "x">>, <<".", "t", "x", "t">>}

\* The position of the last "." of a name, 0 when it has none (str.rfind).
RECURSIVE LastDot(_, _)
LastDot(name, i) ==
    IF i = 0 THEN 0
    ELSE IF name[i] = "." THEN i
    ELSE LastDot(name, i - 1)

\* The name after its last "/" (PurePath.name).
RECURSIVE FinalComponent(_)
FinalComponent(name) ==
    IF \E i \in DOMAIN name : name[i] = "/"
    THEN FinalComponent(Tail(name))
    ELSE name

\* Path(filename).suffix: the final component from its last dot on, unless
\* that dot starts or ends the component.
Suffix(filename) ==
    LET name == FinalComponent(filename)
        i == LastDot(name, Len(name))
    IN  IF 1 < i /\ i < Len(name) THEN SubSeq(name, i, Len(name)) ELSE <<>>

\* Path(filename).suffix.lower()
FileExt(filename) == LET s == Suffix(filename) IN [i \in DOMAIN s |-> Lower(s[i])]

\* A validation that does not look at the size 0.
ValidateFileNotEmptiness(size, filename) ==
    IF size > MaxFileSize THEN "ValueError"
    ELSE IF FileExt(filename) \notin SupportedFormats THEN "ValueError"
    ELSE "none"

\* _validate_file (lines 101-113): the exception it raises, "none" if none.
ValidateFile(size, filename) ==
    IF size > MaxFileSize THEN "ValueError"
    ELSE IF FileExt(filename) \notin SupportedFormats THEN "ValueError"
    ELSE IF size = 0 THEN "ValueError"
    ELSE "none"

\* _extract_text_from_file (lines 115-130) on a file it cannot read: the pdf
\* and docx readers' exceptions become ValueError (lines 143-145, 158-160),
\* the decoding of a txt file raises UnicodeDecodeError (line 124).
ExtractionRaises(filename) ==
    IF FileExt(filename) = <<".", "t", "x", "t">> THEN "UnicodeDecodeError" ELSE "ValueError"

\* Bound: the sizes of the uploaded files.
FileSizes == {0, 1, 100, MaxFileSize - 1, MaxFileSize, MaxFileSize + 1}

FileNames ==
    {<<"a", ".", "p", "d", "f">>, <<"a", ".", "P", "D", "F">>, <<"a", ".", "d", "o", "c", "x">>,
     <<"a", ".", "t", "x", "t">>, <<"a", ".", "T", "x", "t">>, <<"a", ".", "d", "o", "c">>,
     <<"a", ".", "e", "x", "e">>, <<"a", ".", "p", "d", "f", ".", "e", "x", "e">>,
     <<"a", ".", "e", "x", "e", ".", "p", "d", "f">>, <<"a">>, <<"p", "d", "f">>,
     <<".", "p", "d", "f">>, <<"a", ".", "t", "x", "t", ".">>,
     <<"d", ".", "t", "x", "t", "/", "a">>, <<"d", "/", "a", ".", "t", "x", "t">>}

\* process_single_document (lines 22-45): the steps it invokes, in order, and
\* the exception that leaves it ("none" when it returns the analysis).
ProcessSingleDocument ==
    /\ upload = None
    /\ \E size \in FileSizes, filename \in FileNames,
          readable \in BOOLEAN, analysed \in BOOLEAN :
          LET invalid == ValidateFile(size, filename)
          IN  /\ upload' = Some([size |-> size, filename |-> filename,
                                 readable |-> readable, analysed |-> analysed])
              /\ upload_result' =
                    IF invalid # "none"
                    THEN Some([steps |-> <<"_validate_file">>, raised |-> invalid])
                    ELSE IF ~readable
                    THEN Some([steps |-> <<"_validate_file", "_extract_text_from_file">>,
                               raised |-> ExtractionRaises(filename)])
                    ELSE Some([steps |-> <<"_validate_file", "_extract_text_from_file",
                                           "_clean_extracted_text", "analyze_contract">>,
                               raised |-> IF analysed THEN "none" ELSE "Exception"])
    /\ UNCHANGED <<serviceVars, scoreVars, normVars, extractVars, gapVars, clientVars,
                   bulkVars, contextVars, metadataVars, authVars, cleanVars>>

InitUpload ==
    /\ ServiceIdle /\ ScoreIdle /\ NormIdle /\ ExtractIdle /\ GapIdle /\ ClientIdle
    /\ BulkIdle /\ ContextIdle /\ MetadataIdle /\ AuthIdle /\ UploadIdle /\ CleanIdle

NextUpload == ProcessSingleDocument
SpecUpload == InitUpload /\ [][NextUpload]_vars

\* The steps after the validation.
LaterSteps == {"_extract_text_from_file", "_clean_extracted_text", "analyze_contract"}

\* C23: for every file that is larger than 10 MB, is empty, or whose name
\* does not end in .pdf, .docx or .txt (in any letter case),
\* process_single_document raises ValueError and invokes neither the text
\* extraction nor analyze_contract.
C23_InvalidFileRejectedFirst ==
    upload_result # None =>
        LET file == upload[1]
            name == file.filename
            ending(ext) ==
                /\ Len(name) > Len(ext)
                /\ \A i \in DOMAIN ext : Lower(name[Len(name) - Len(ext) + i]) = ext[i]
        IN  \/ file.size > 10 * 1024 * 1024
            \/ file.size = 0
            \/ ~\E ext \in SupportedFormats : ending(ext)
            => /\ upload_result[1].raised = "ValueError"
               /\ \A k \in DOMAIN upload_result[1].steps :
                     upload_result[1].steps[k] \notin LaterSteps

\* An empty file with a supported name has been rejected by the validation.
C23_Witness ==
    /\ upload_result # None
    /\ upload[1].size = 0
    /\ upload[1].filename = <<"a", ".", "t", "x", "t">>
    /\ upload_result[1] = [steps |-> <<"_validate_file">>, raised |-> "ValueError"]

(***************************************************************************)
(* The requirement and recommendation strings of the LLM's response        *)
(* (ContractAnalyzerService._clean_ai_response, lines 1364-1390)           *)
(*                                                                         *)
(* A string is the tuple of its characters.  The value of a JSON field is  *)
(* a list of strings or a single string.                                   *)
(***************************************************************************)
JsonList(items) == [type |-> "list", value |-> items]
JsonStr(text) == [type |-> "str", value |-> text]

\* for req in requirements: the elements of a list, the characters of a str.
Iterated(field) ==
    IF field.type = "list" THEN field.value
    ELSE [i \in DOMAIN field.value |-> <<field.value[i]>>]

\* _is_generic_placeholder.generic_phrases (lines 1456-1463).
GenericPhrases ==
    {<<"s", "p", "e", "c", "i", "f", "i", "c", " ", "s", "t", "a", "t", "u", "t", "o", "r", "y", " ", "r", "e", "q", "u", "i", "r", "e", "m", "e", "n", "t", "s", " ", "m", "i", "s", "s", "i", "n", "g">>,
     <<"s", "p", "e", "c", "i", "f", "i", "c", " ", "a", "c", "t", "i", "o", "n", "a", "b", "l", "e", " ", "l", "e", "g", "a", "l", " ", "c", "o", "m", "p", "l", "i", "a", "n", "c", "e", " ", "s", "t", "e", "p", "s">>,
     <<"g", "e", "n", "e", "r", "a", "l", " ", "c", "o", "m", "p", "l", "i", "a", "n", "c", "e", " ", "c", "o", "n", "c", "e", "r", "n", " ", "i", "d", "e", "n", "t", "i", "f", "i", "e", "d">>,
     <<"r", "e", "v", "i", "e", "w", " ", "w", "i", "t", "h", " ", "l", "e", "g", "a", "l", " ", "c", "o", "u", "n", "s", "e", "l">>,
     <<"s", "t", "a", "t", "u", "t", "o", "r", "y", " ", "r", "e", "q", "u", "i", "r", "e", "m", "e", "n", "t", "s", " ", "m", "i", "s", "s", "i", "n", "g">>,
     <<"a", "c", "t", "i", "o", "n", "a", "b", "l", "e", " ", "l", "e", "g", "a", "l", " ", "c", "o", "m", "p", "l", "i", "a", "n", "c", "e", " ", "s", "t", "e", "p", "s">>}

\* _is_generic_placeholder (lines 1452-1466): a generic phrase is part of the
\* lower-cased text.
ContainsGenericPhrase(text) == AnyPhraseIn(GenericPhrases, TextLower(text))

\* _generate_specific_requirements (lines 1468-1520); the list of a law
\* stands by its first sentence, CCPA and Section signs as in the source.
GenerateSpecificRequirements(law) ==
    CASE law = Law("EMPLOYMENT_ACT_MY") ->
            <<<<"T", "e", "r", "m", "i", "n", "a", "t", "i", "o", "n", " ", "n", "o", "t", "i", "c", "e", " ", "p", "r", "o", "v", "i", "s", "i", "o", "n", "s", " ", "d", "o", " ", "n", "o", "t", " ", "m", "e", "e", "t", " ", "E", "m", "p", "l", "o", "y", "m", "e", "n", "t", " ", "A", "c", "t", " ", "1", "9", "5", "5", " ", "S", "e", "c", "t", "i", "o", "n", " ", "1", "2", " ", "m", "i", "n", "i", "m", "u", "m", " ", "r", "e", "q", "u", "i", "r", "e", "m", "e", "n", "t", "s">>>>
      [] law = Law("PDPA_MY") ->
            <<<<"M", "i", "s", "s", "i", "n", "g", " ", "e", "x", "p", "l", "i", "c", "i", "t", " ", "c", "o", "n", "s", "e", "n", "t", " ", "m", "e", "c", "h", "a", "n", "i", "s", "m", "s", " ", "r", "e", "q", "u", "i", "r", "e", "d", " ", "u", "n", "d", "e", "r", " ", "P", "e", "r", "s", "o", "n", "a", "l", " ", "D", "a", "t", "a", " ", "P", "r", "o", "t", "e", "c", "t", "i", "o", "n", " ", "A", "c", "t", " ", "2", "0", "1", "0">>>>
      [] law = Law("PDPA_SG") ->
            <<<<"M", "i", "s", "s", "i", "n", "g", " ", "c", "o", "n", "s", "e", "n", "t", " ", "n", "o", "t", "i", "f", "i", "c", "a", "t", "i", "o", "n", " ", "r", "e", "q", "u", "i", "r", "e", "m", "e", "n", "t", "s", " ", "u", "n", "d", "e", "r", " ", "S", "i", "n", "g", "a", "p", "o", "r", "e", " ", "P", "D", "P", "A", " ", "2", "0", "1", "2">>>>
      [] law = Law("GDPR_EU") ->
            <<<<"M", "i", "s", "s", "i", "n", "g", " ", "l", "a", "w", "f", "u", "l", " ", "b", "a", "s", "i", "s", " ", "f", "o", "r", " ", "p", "r", "o", "c", "e", "s", "s", "i", "n", "g", " ", "p", "e", "r", "s", "o", "n", "a", "l", " ", "d", "a", "t", "a", " ", "u", "n", "d", "e", "r", " ", "G", "D", "P", "R", " ", "A", "r", "t", "i", "c", "l", "e", " ", "6">>>>
      [] law = Law("CCPA_US") ->
            <<<<"M", "i", "s", "s", "i", "n", "g", " ", "R", "i", "g", "h", "t", " ", "t", "o", " ", "C", "o", "r", "r", "e", "c", "t", " ", "p", "e", "r", "s", "o", "n", "a", "l", " ", "i", "n", "f", "o", "r", "m", "a", "t", "i", "o", "n", " ", "u", "n", "d", "e", "r", " ", "C", "C", "P", "A", " ", " ", "1", "7", "9", "8", ".", "1", "0", "6">>>>
      [] OTHER ->
            <<<<"C", "o", "n", "t", "r", "a", "c", "t", " ", "r", "e", "q", "u", "i", "r", "e", "s", " ", "l", "e", "g", "a", "l", " ", "r", "e", "v", "i", "e", "w", " ", "f", "o", "r", " ", "c", "o", "m", "p", "l", "i", "a", "n", "c", "e">>>>

\* _generate_specific_recommendations (lines 1522-1570), likewise.
GenerateSpecificRecommendations(law) ==
    CASE law = Law("EMPLOYMENT_ACT_MY") ->
            <<<<"A", "d", "d", " ", "t", "e", "r", "m", "i", "n", "a", "t", "i", "o", "n", " ", "c", "l", "a", "u", "s", "e", " ", "s", "p", "e", "c", "i", "f", "y", "i", "n", "g", " ", "m", "i", "n", "i", "m", "u", "m", " ", "n", "o", "t", "i", "c", "e", " ", "p", "e", "r", "i", "o", "d", "s">>>>
      [] law = Law("PDPA_MY") ->
            <<<<"I", "m", "p", "l", "e", "m", "e", "n", "t", " ", "c", "l", "e", "a", "r", " ", "c", "o", "n", "s", "e", "n", "t", " ", "p", "r", "o", "c", "e", "d", "u", "r", "e", "s", " ", "w", "i", "t", "h", " ", "o", "p", "t", "-", "i", "n", " ", "m", "e", "c", "h", "a", "n", "i", "s", "m", "s", " ", "b", "e", "f", "o", "r", "e", " ", "c", "o", "l", "l", "e", "c", "t", "i", "n", "g", " ", "p", "e", "r", "s", "o", "n", "a", "l", " ", "d", "a", "t", "a">>>>
      [] law = Law("PDPA_SG") ->
            <<<<"I", "n", "c", "l", "u", "d", "e", " ", "n", "o", "t", "i", "f", "i", "c", "a", "t", "i", "o", "n", " ", "r", "e", "q", "u", "i", "r", "e", "m", "e", "n", "t", "s", " ", "b", "e", "f", "o", "r", "e", " ", "c", "o", "l", "l", "e", "c", "t", "i", "n", "g", " ", "p", "e", "r", "s", "o", "n", "a", "l", " ", "d", "a", "t", "a", " ", "w", "i", "t", "h", " ", "c", "l", "e", "a", "r", " ", "p", "u", "r", "p", "o", "s", "e", " ", "s", "t", "a", "t", "e", "m", "e", "n", "t", "s">>>>
      [] law = Law("GDPR_EU") ->
            <<<<"E", "s", "t", "a", "b", "l", "i", "s", "h", " ", "c", "l", "e", "a", "r", " ", "l", "a", "w", "f", "u", "l", " ", "b", "a", "s", "i", "s", " ", "f", "o", "r", " ", "e", "a", "c", "h", " ", "t", "y", "p", "e", " ", "o", "f", " ", "d", "a", "t", "a", " ", "p", "r", "o", "c", "e", "s", "s", "i", "n", "g", " ", "u", "n", "d", "e", "r", " ", "A", "r", "t", "i", "c", "l", "e", " ", "6">>>>
      [] law = Law("CCPA_US") ->
            <<<<"I", "m", "p", "l", "e", "m", "e", "n", "t", " ", "a", "l", "l", " ", "r", "e", "q", "u", "i", "r", "e", "d", " ", "C", "C", "P", "A", " ", "c", "o", "n", "s", "u", "m", "e", "r", " ", "r", "i", "g", "h", "t", "s">>>>
      [] OTHER ->
            <<<<"C", "o", "n", "s", "u", "l", "t", " ", "l", "e", "g", "a", "l", " ", "c", "o", "u", "n", "s", "e", "l", " ", "f", "o", "r", " ", "j", "u", "r", "i", "s", "d", "i", "c", "t", "i", "o", "n", "-", "s", "p", "e", "c", "i", "f", "i", "c", " ", "c", "o", "m", "p", "l", "i", "a", "n", "c", "e">>>>

\* The loops of lines 1368-1370 and 1382-1384.
KeptStrings(field) ==
    SelectSeq(Iterated(field), LAMBDA req : req # <<>> /\ ~ContainsGenericPhrase(req))

\* Lines 1365-1376.
CleanedRequirements(field, law) ==
    IF KeptStrings(field) = <<>> THEN GenerateSpecificRequirements(law)
    ELSE KeptStrings(field)

\* Lines 1379-1390.
CleanedRecommendations(field, law) ==
    IF KeptStrings(field) = <<>> THEN GenerateSpecificRecommendations(law)
    ELSE KeptStrings(field)

\* The loop over compliance_issues (lines 1326-1392): the law is repaired,
\* an issue whose law does not apply is dropped, the strings are cleaned.
RECURSIVE CleanComplianceIssues(_, _)
CleanComplianceIssues(issues, j) ==
    LET issue == Head(issues)
        final_law == FixedLaw(issue.law, j)
    IN  IF issues = <<>> THEN <<>>
        ELSE IF \/ issue.law = Law("EMPLOYMENT_ACT_MY") /\ j # "MY"
                \/ ~FinalLawApplicable(final_law, j)
             THEN CleanComplianceIssues(Tail(issues), j)
             ELSE <<[law |-> final_law,
                     missing_requirements |->
                         CleanedRequirements(issue.missing_requirements, final_law),
                     recommendations |->
                         CleanedRecommendations(issue.recommendations, final_law)]>>
                  \o CleanComplianceIssues(Tail(issues), j)

\* Strings the LLM writes into a list: three that hold a generic phrase, a
\* literal token of a template, a bracketed placeholder, the empty string
\* and a finding.
LlmStrings ==
    {<<"S", "p", "e", "c", "i", "f", "i", "c", " ", "s", "t", "a", "t", "u", "t", "o", "r", "y", " ", "r", "e", "q", "u", "i", "r", "e", "m", "e", "n", "t", "s", " ", "m", "i", "s", "s", "i", "n", "g">>,
     <<"S", "o", "m", "e", " ", "s", "t", "a", "t", "u", "t", "o", "r", "y", " ", "r", "e", "q", "u", "i", "r", "e", "m", "e", "n", "t", "s", " ", "m", "i", "s", "s", "i", "n", "g", " ", "h", "e", "r", "e">>,
     <<"R", "e", "v", "i", "e", "w", " ", "w", "i", "t", "h", " ", "l", "e", "g", "a", "l", " ", "c", "o", "u", "n", "s", "e", "l">>,
     <<"S", "P", "E", "C", "I", "F", "I", "C", "_", "L", "A", "W", "_", "I", "D">>,
     <<"[", "I", "n", "s", "e", "r", "t", " ", "r", "e", "q", "u", "i", "r", "e", "m", "e", "n", "t", " ", "h", "e", "r", "e", "]">>,
     <<>>,
     <<"N", "o", " ", "c", "o", "n", "s", "e", "n", "t", " ", "c", "l", "a", "u", "s", "e", " ", "f", "o", "r", " ", "m", "a", "r", "k", "e", "t", "i", "n", "g">>}

\* Bound: strings of a list the LLM returns.
MaxStrings == 2

LlmLists == UNION {[1..n -> LlmStrings] : n \in 0..MaxStrings}

LlmLawFields == {<<"PDPA_MY">>, <<"GDPR_EU">>, <<"HIPAA">>}

\* _clean_ai_response on a response with one compliance issue.
CleanAiIssue ==
    /\ ai_issues = None
    /\ \E law \in LlmLawFields, j \in {"MY", "EU"},
          requirements \in LlmLists, recommendations \in LlmLists :
          LET issue == [law |-> law,
                        missing_requirements |-> JsonList(requirements),
                        recommendations |-> JsonList(recommendations)]
          IN  /\ ai_issues' = Some([jurisdiction |-> j, issues |-> <<issue>>])
              /\ cleaned_issues' = Some(CleanComplianceIssues(<<issue>>, j))
    /\ UNCHANGED <<serviceVars, scoreVars, normVars, extractVars, gapVars, clientVars,
                   bulkVars, contextVars, metadataVars, authVars, uploadVars>>

InitClean ==
    /\ ServiceIdle /\ ScoreIdle /\ NormIdle /\ ExtractIdle /\ GapIdle /\ ClientIdle
    /\ BulkIdle /\ ContextIdle /\ MetadataIdle /\ AuthIdle /\ UploadIdle /\ CleanIdle

NextClean == CleanAiIssue
SpecClean == InitClean /\ [][NextClean]_vars

\* A literal token of a template.
TemplateTokens == {<<"s", "p", "e", "c", "i", "f", "i", "c", "_", "l", "a", "w", "_", "i", "d">>}

\* [ ... ]
IsBracketed(text) ==
    \E p, q \in DOMAIN text : p < q /\ text[p] = "[" /\ text[q] = "]"

IsPlaceholderText(text) ==
    \/ AnyPhraseIn(GenericPhrases, TextLower(text))
    \/ AnyPhraseIn(TemplateTokens, TextLower(text))
    \/ IsBracketed(text)

\* Every string of the field is empty or placeholder text.
OnlyPlaceholders(field) ==
    \A i \in DOMAIN field.value :
        field.value[i] = <<>> \/ IsPlaceholderText(field.value[i])

\* C28: after the cleaning no requirement or recommendation string of a kept
\* issue is a generic template phrase, a literal template token or a
\* bracketed placeholder, and a list of the LLM that held nothing else has
\* become the generated list of the issue's law.
C28_NoPlaceholderSurvivesCleaning ==
    cleaned_issues # None =>
        \A k \in DOMAIN cleaned_issues[1] :
            LET issue == cleaned_issues[1][k]
                given == ai_issues[1].issues[1]
            IN  /\ \A i \in DOMAIN issue.missing_requirements :
                       ~IsPlaceholderText(issue.missing_requirements[i])
                /\ \A i \in DOMAIN issue.recommendations :
                       ~IsPlaceholderText(issue.recommendations[i])
                /\ OnlyPlaceholders(given.missing_requirements) =>
                       issue.missing_requirements = GenerateSpecificRequirements(issue.law)
                /\ OnlyPlaceholders(given.recommendations) =>
                       issue.recommendations = GenerateSpecificRecommendations(issue.law)

(***************************************************************************)
(* The issue fields of the LLM's JSON, from the generated text to the      *)
(* cleaned response (WatsonXClient._extract_json_from_response, then       *)
(* json.loads and _clean_ai_response in analyze_contract, lines 102-103)   *)
(*                                                                         *)
(* In the tokens "L" and "Q" the requirement r is "no consent" and the     *)
(* recommendation c is "add it"; the contract is one on which the rule     *)
(* engine finds nothing to merge, and the jurisdiction is MY.              *)
(***************************************************************************)
RequirementText == <<"n", "o", " ", "c", "o", "n", "s", "e", "n", "t">>
RecommendationText == <<"a", "d", "d", " ", "i", "t">>

\* json.loads of the members of an issue object.
IssueOf(member) ==
    [law |-> Law("PDPA_MY"),
     missing_requirements |-> IF member = "Q" THEN JsonStr(RequirementText)
                              ELSE JsonList(<<RequirementText>>),
     recommendations |-> IF member = "Q" THEN JsonStr(RecommendationText)
                         ELSE JsonList(<<RecommendationText>>)]

\* ai_json.get("compliance_issues", []) of the parsed text (line 1326): the
\* issue objects of the outer object's compliance_issues list, in order.
ComplianceIssuesOf(text) ==
    LET s == WithoutNewlines(text)
        at == SelectSeq([k \in DOMAIN s |-> k],
                        LAMBDA k : /\ s[k] \in IssueTokens
                                   /\ NestingDepth(s, k) = 3
                                   /\ EnclosingKey(s, k) = "C")
    IN  [n \in DOMAIN at |-> IssueOf(s[at[n]])]

\* What the model generates when it writes issue fields as strings, and the
\* same with lists: an analysis object, or an issue object alone.
IssueFieldKinds == {"objects", "scalars"}

IssueTexts ==
    {WithProse(AnalysisObject(f, i, kind, layout), prose) :
        f \in 0..1, i \in 1..MaxNestedIssues,
        kind \in IssueFieldKinds, layout \in Layouts, prose \in Proses}
    \cup {WithProse(NestedObject(member, layout), prose) :
            member \in IssueTokens, layout \in Layouts, prose \in Proses}

\* Complete, or cut at any token (max_new_tokens).
GeneratedIssueTexts ==
    UNION {{SubSeq(t, 1, n) : n \in 0..Len(t)} : t \in IssueTexts}

\* Steps 4 and 5 of analyze_contract on such a text: the client extracts
\* the JSON, the service parses and cleans it.  An exception of the client
\* leaves the service with the rule engine's findings: no issue of the LLM.
AnalyzeIssueFields ==
    /\ generated_text = None
    /\ \E text \in GeneratedIssueTexts :
          LET result == ExtractJsonFromResponse(text)
              issues == IF result.raised THEN <<>> ELSE ComplianceIssuesOf(result.text)
          IN  /\ generated_text' = Some(text)
              /\ client_result' = Some(result)
              /\ ai_issues' = Some([jurisdiction |-> "MY", issues |-> issues])
              /\ cleaned_issues' = Some(CleanComplianceIssues(issues, "MY"))
    /\ UNCHANGED <<serviceVars, scoreVars, normVars, extractVars, gapVars,
                   bulkVars, contextVars, metadataVars, authVars, uploadVars>>

NextCoerce == AnalyzeIssueFields
SpecCoerce == InitClean /\ [][NextCoerce]_vars

\* The tokens of a text.
TokensOf(text) == {text[k] : k \in DOMAIN text}

\* C27: when the generated text holds an issue whose missing_requirements
\* and recommendations are strings, then on every extraction path the text
\* the client returns holds no issue with a string field, and every issue of
\* the cleaned response carries the requirement and the recommendation as
\* lists of that one string.
C27_ScalarFieldsBecomeSingleElementLists ==
    /\ cleaned_issues # None
    /\ "Q" \in TokensOf(generated_text[1])
    => /\ ~client_result[1].raised => "Q" \notin TokensOf(client_result[1].text)
       /\ \A k \in DOMAIN cleaned_issues[1] :
              /\ cleaned_issues[1][k].missing_requirements = <<RequirementText>>
              /\ cleaned_issues[1][k].recommendations = <<RecommendationText>>

=============================================================================
